---------------------------- MODULE Spec2Model ----------------------------
(***************************************************************************)
(* A model of the Cushion core (packages/core/src/core.ts and index.ts):   *)
(* the mapping engine (AbsorptionEngine), the rule registry                *)
(* (CushionManager), the hook bus (PluginEcosystem), the interceptor       *)
(* (ShockAbsorber) and the facade (Cushion and the module-level functions  *)
(* of index.ts).                                                           *)
(*                                                                         *)
(* Strings the code takes apart (URLs, URL patterns, mapping paths) are    *)
(* sequences of tokens, so that split, includes, the compiled pattern and  *)
(* URLSearchParams are computed on them as the code computes them on       *)
(* characters.  JavaScript values are tagged records.                      *)
(***************************************************************************)
EXTENDS Integers, Sequences, FiniteSets, TLC

VARIABLES
    engData,      \* AbsorptionEngine.absorb: the data argument of the call
    engMapping,   \* AbsorptionEngine.absorb: the mapping argument of the call
    engResult,    \* AbsorptionEngine.absorb: what the call returned
    engPc,        \* "idle" before the call, "returned" / "threw" after it
    rules,        \* CushionManager.rules: the Map's entries in insertion order
    patterns,     \* CushionManager.patterns: the compiled pattern list
    regLast,      \* the last CushionManager call and the registry before it
    regOps,       \* how many CushionManager calls were made
    isActive,     \* ShockAbsorber.isActive
    originalFetch,  \* ShockAbsorber.originalFetch
    globalFetch,  \* globalThis.fetch
    second,       \* a second ShockAbsorber: its isActive and originalFetch
    savedFetch,   \* the reference other code read from globalThis.fetch and kept
    plugins,      \* PluginEcosystem.plugins: the Map's entries in insertion order
    absorbHooks,  \* PluginEcosystem.absorbHooks
    requestHooks,   \* PluginEcosystem.requestHooks
    responseHooks,  \* PluginEcosystem.responseHooks
    calls,        \* the calls of globalThis.fetch the application made, in order
    events        \* how many facade calls and fetch calls the application made

engVars == <<engData, engMapping, engResult, engPc>>
regVars == <<rules, patterns>>
regHistory == <<regLast, regOps>>
ambientVars == <<second, savedFetch>>
icVars == <<isActive, originalFetch, globalFetch, ambientVars>>
hookVars == <<plugins, absorbHooks, requestHooks, responseHooks>>
callVars == <<calls, events>>
facadeVars == <<icVars, hookVars, callVars>>

---------------------------------------------------------------------------
(* JavaScript values *)

Undef == [t |-> "undefined"]
Null == [t |-> "null"]
Str(s) == [t |-> "string", s |-> s]
Num(n) == [t |-> "number", n |-> n]
Bool(b) == [t |-> "boolean", b |-> b]
\* an array: its elements in order
Arr(items) == [t |-> "array", items |-> items]
\* a plain object: its own enumerable properties in insertion order
Obj(entries) == [t |-> "object", entries |-> entries]
Prop(k, v) == [k |-> k, v |-> v]

\* typeof v (null and arrays are "object")
TypeOf(v) ==
    IF v.t \in {"null", "array", "object"} THEN "object" ELSE v.t

\* !v taken as a test for null and undefined only
FalsyNullish(v) == v.t \in {"undefined", "null"}

\* !v
Falsy(v) ==
    \/ v.t \in {"undefined", "null"}
    \/ v.t = "string" /\ v.s = ""
    \/ v.t = "number" /\ v.n = 0
    \/ v.t = "boolean" /\ ~v.b

IsArray(v) == v.t = "array"

\* Object.keys(o) of a plain object, as a set
KeysOf(o) == {o.entries[i].k : i \in 1..Len(o.entries)}

HasOwn(o, k) == \E i \in 1..Len(o.entries) : o.entries[i].k = k

\* o[k] for an own property k of a plain object
OwnValue(o, k) ==
    o.entries[CHOOSE i \in 1..Len(o.entries) : o.entries[i].k = k].v

\* SetProp with a guard that leaves an undefined value out
SetPropUnlessUndefined(o, k, v) ==
    IF v = Undef THEN o
    ELSE IF HasOwn(o, k)
    THEN Obj([i \in 1..Len(o.entries) |->
                IF o.entries[i].k = k THEN Prop(k, v) ELSE o.entries[i]])
    ELSE Obj(Append(o.entries, Prop(k, v)))

\* o[k] = v on a plain object: an existing property keeps its place
SetProp(o, k, v) ==
    IF HasOwn(o, k)
    THEN Obj([i \in 1..Len(o.entries) |->
                IF o.entries[i].k = k THEN Prop(k, v) ELSE o.entries[i]])
    ELSE Obj(Append(o.entries, Prop(k, v)))

---------------------------------------------------------------------------
(* Token strings *)

\* s.split(sep), both token sequences; cur is the part being collected
RECURSIVE SplitOn(_, _, _)
SplitOn(s, sep, cur) ==
    IF s = <<>> THEN <<cur>>
    ELSE IF Len(s) >= Len(sep) /\ SubSeq(s, 1, Len(sep)) = sep
         THEN <<cur>> \o SplitOn(SubSeq(s, Len(sep) + 1, Len(s)), sep, <<>>)
         ELSE SplitOn(Tail(s), sep, Append(cur, Head(s)))

Split(s, sep) == SplitOn(s, sep, <<>>)

\* s.includes(tok) for a one-token needle
Includes(s, tok) == \E i \in 1..Len(s) : s[i] = tok

\* the tokens "[N]" of a path and the N each stands for
IndexTokens == {"[0]", "[1]"}
IndexOf(tok) == IF tok = "[0]" THEN 0 ELSE 1

\* the property names that are array indices, and the index each names
NumericKeys == {"0", "1"}
NumericOf(tok) == IF tok = "0" THEN 0 ELSE 1

---------------------------------------------------------------------------
(* AbsorptionEngine *)

\* the outcome of a call: a return value or a throw
Returned(v) == [thrown |-> FALSE, val |-> v]
Thrown == [thrown |-> TRUE, val |-> Undef]

\* current[key] as the reduce of extractNestedValue reads it; current is
\* neither null nor undefined, key is the token string of one path segment.
\* Strings, numbers and booleans have no property named by the model's tokens.
GetProp(current, key) ==
    IF Len(key) # 1 THEN Undef
    ELSE IF current.t = "object"
         THEN IF HasOwn(current, key[1]) THEN OwnValue(current, key[1]) ELSE Undef
    ELSE IF current.t = "array"
         THEN IF key[1] \in NumericKeys /\ NumericOf(key[1]) < Len(current.items)
              THEN current.items[NumericOf(key[1]) + 1]
              ELSE Undef
    ELSE Undef

\* key.match(/^(.+)\[(\d+)\]$/): something, then a final "[N]"
ArrayMatch(key) == Len(key) >= 2 /\ key[Len(key)] \in IndexTokens

\* one step of the reduce of extractNestedValue
PathStep(current, key) ==
    IF current.t \in {"null", "undefined"} THEN Undef
    ELSE IF ArrayMatch(key)
         THEN LET array == GetProp(current, SubSeq(key, 1, Len(key) - 1))
                  index == IndexOf(key[Len(key)])
              IN  IF IsArray(array)
                  THEN IF index < Len(array.items) THEN array.items[index + 1] ELSE Undef
                  ELSE Undef
         ELSE GetProp(current, key)

\* keys.reduce(PathStep, current)
RECURSIVE PathReduce(_, _)
PathReduce(current, keys) ==
    IF keys = <<>> THEN current
    ELSE PathReduce(PathStep(current, Head(keys)), Tail(keys))

\* the wildcard branch takes an array found at the prefix, and only then
WildcardTakes(array) == IsArray(array)

RECURSIVE extractNestedValue(_, _)
extractNestedValue(obj, path) ==
    LET parts == Split(path, <<".", "*", ".">>)
        dotted == PathReduce(obj, Split(path, <<".">>))
    IN  IF Includes(path, "*") /\ Len(parts) = 2
        THEN LET array == extractNestedValue(obj, parts[1])
             IN  IF WildcardTakes(array)
                 THEN Arr([i \in 1..Len(array.items) |->
                             extractNestedValue(array.items[i], parts[2])])
                 ELSE dotted
        ELSE dotted

\* The transform functions mappings of the model carry: what each returns
\* for data, or that it throws.
\*   fnThrow   () => { throw new Error(...) }
\*   fnConst   () => "computed"
\*   fnNested  (data) => data.user.name
FnApply(fn, data) ==
    IF fn = "fnThrow" THEN Thrown
    ELSE IF fn = "fnConst" THEN Returned(Str("computed"))
    ELSE LET user == IF data.t = "object" THEN GetProp(data, <<"user">>) ELSE Undef
         IN  IF user.t \in {"null", "undefined"} THEN Thrown
             ELSE Returned(GetProp(user, <<"name">>))

PathIns(path) == [kind |-> "path", path |-> path]
FnIns(fn) == [kind |-> "fn", fn |-> fn]
Entry(k, ins) == [k |-> k, ins |-> ins]

\* FieldOfFunction without the try/catch
FieldOfFunctionUncaught(fn, data) == FnApply(fn, data)

\* what the try/catch around a function instruction leaves in the field
FieldOfFunction(fn, data) ==
    LET r == FnApply(fn, data)
    IN  IF r.thrown THEN Returned(Undef) ELSE Returned(r.val)

\* the loop of absorb over Object.entries(mapping), from entry i on;
\* cushioned is the object built so far
RECURSIVE AbsorbFields(_, _, _, _)
AbsorbFields(data, mapping, i, cushioned) ==
    IF i > Len(mapping) THEN Returned(cushioned)
    ELSE LET stableKey == mapping[i].k
             changingPath == mapping[i].ins
         IN  IF changingPath.kind = "fn"
             THEN LET f == FieldOfFunction(changingPath.fn, data)
                  IN  IF f.thrown THEN Thrown
                      ELSE AbsorbFields(data, mapping, i + 1,
                                        SetProp(cushioned, stableKey, f.val))
             ELSE IF changingPath.kind = "path"
             THEN AbsorbFields(data, mapping, i + 1,
                     SetProp(cushioned, stableKey,
                             extractNestedValue(data, changingPath.path)))
             ELSE AbsorbFields(data, mapping, i + 1, cushioned)

\* PassesThrough without the !data test: null counts as an object
PassesThroughTypeofOnly(data) == TypeOf(data) # "object"

\* data is returned as it is: !data || typeof data !== "object"
PassesThrough(data) == Falsy(data) \/ TypeOf(data) # "object"

\* data.map(f) for f returning outcomes: the first throw ends the map
RECURSIVE MapOutcomes(_, _)
MapOutcomes(outs, done) ==
    IF outs = <<>> THEN Returned(Arr(done))
    ELSE IF Head(outs).thrown THEN Thrown
    ELSE MapOutcomes(Tail(outs), Append(done, Head(outs).val))

\* absorb without the Array.isArray branch: an array is mapped as one object
absorbWithoutArrayBranch(data, mapping) ==
    IF Falsy(data) \/ TypeOf(data) # "object" THEN Returned(data)
    ELSE AbsorbFields(data, mapping, 1, Obj(<<>>))

RECURSIVE absorb(_, _)
absorb(data, mapping) ==
    IF PassesThrough(data) THEN Returned(data)
    ELSE IF IsArray(data)
         THEN MapOutcomes([i \in 1..Len(data.items) |-> absorb(data.items[i], mapping)],
                          <<>>)
    ELSE AbsorbFields(data, mapping, 1, Obj(<<>>))

---------------------------------------------------------------------------
(* CushionManager *)

\* A rule: its mapping, its predicate (a name, or "none") and its fallback
\* mapping (or NoMapping: undefined, held in a sequence so that it compares
\* with mappings).
NoMapping == <<Undef>>
Rule(mapping, condition, fallback) ==
    [mapping |-> mapping, condition |-> condition, fallback |-> fallback]
\* what getCushion returns when nothing matches
NoRule == [t |-> "null"]

\* The tokens of URLs and URL patterns, and the characters of each.
ParamTokens == {":id"}
SlashTokens == {"/", "/api"}
\* the characters of a token ("/", "*", "?", "=" and "&" are one each)
TokenLength(tok) ==
    CASE tok \in {"version", "profile"} -> 7
      [] tok = "locale" -> 6
      [] tok = "users" -> 5
      [] tok \in {"/api", "user"} -> 4
      [] tok \in {"123", "456", ":id"} -> 3
      [] tok \in {"v1", "v2", "en"} -> 2
      [] OTHER -> 1

\* s.length
RECURSIVE StringLength(_)
StringLength(s) ==
    IF s = <<>> THEN 0 ELSE TokenLength(Head(s)) + StringLength(Tail(s))

\* urlPattern.includes("*") || urlPattern.includes(":")
IsCompiledPattern(urlPattern) ==
    \E i \in 1..Len(urlPattern) :
        urlPattern[i] = "*" \/ urlPattern[i] \in ParamTokens

\* createPatternRegex: "*" becomes .*, ":name" becomes [^/]+, every other
\* token is matched literally (the metacharacters are escaped)
createPatternRegex(pattern) ==
    [i \in 1..Len(pattern) |->
        IF pattern[i] = "*" THEN [a |-> "any"]
        ELSE IF pattern[i] \in ParamTokens THEN [a |-> "segment"]
        ELSE [a |-> "literal", tok |-> pattern[i]]]

\* regex.test(s) for a regex anchored at both ends
RECURSIVE RegexTest(_, _)
RegexTest(regex, s) ==
    IF regex = <<>> THEN s = <<>>
    ELSE LET atom == Head(regex)
         IN  IF atom.a = "literal"
             THEN s # <<>> /\ Head(s) = atom.tok /\ RegexTest(Tail(regex), Tail(s))
             ELSE IF atom.a = "any"
             THEN \E n \in 0..Len(s) :
                     RegexTest(Tail(regex), SubSeq(s, n + 1, Len(s)))
             ELSE \E n \in 1..Len(s) :
                     /\ \A i \in 1..n : s[i] \notin SlashTokens
                     /\ RegexTest(Tail(regex), SubSeq(s, n + 1, Len(s)))

\* new URLSearchParams(query): the name/value pairs in order
SearchParams(query) ==
    LET pieces == SelectSeq(Split(query, <<"&">>), LAMBDA piece : piece # <<>>)
    IN  [i \in 1..Len(pieces) |->
            LET halves == Split(pieces[i], <<"=">>)
            IN  [name |-> halves[1],
                 value |-> IF Len(halves) >= 2
                           THEN SubSeq(pieces[i], Len(halves[1]) + 2, Len(pieces[i]))
                           ELSE <<>>]]

\* params.get(name): the first value of that name, or null
ParamsGet(params, name) ==
    IF \E i \in 1..Len(params) : params[i].name = name
    THEN [found |-> TRUE,
          value |-> params[CHOOSE i \in 1..Len(params) :
                              /\ params[i].name = name
                              /\ \A j \in 1..(i - 1) : params[j].name # name].value]
    ELSE [found |-> FALSE, value |-> <<>>]

\* the second element of s.split("?"), or "" when there is none
QueryOf(s) == LET parts == Split(s, <<"?">>) IN IF Len(parts) >= 2 THEN parts[2] ELSE <<>>

\* the pattern's pair agrees with what urlParams.get gives for its key
PairAgrees(urlParams, pair) ==
    LET got == ParamsGet(urlParams, pair.name)
    IN  got.found /\ got.value = pair.value

matchesWithQuery(url, pattern) ==
    LET urlPath == Split(url, <<"?">>)[1]
        patternPath == Split(pattern, <<"?">>)[1]
        patternQuery == QueryOf(pattern)
        urlParams == SearchParams(QueryOf(url))
        patternParams == SearchParams(patternQuery)
    IN  IF urlPath # patternPath THEN FALSE
        ELSE IF patternQuery = <<>> THEN TRUE
        ELSE \A i \in 1..Len(patternParams) : PairAgrees(urlParams, patternParams[i])

\* rules.has(url)
RulesHas(rs, url) == \E i \in 1..Len(rs) : rs[i].pattern = url
RulesIndex(rs, url) == CHOOSE i \in 1..Len(rs) : rs[i].pattern = url

\* rules.set(urlPattern, rule): an existing key keeps its place
RulesSet(rs, urlPattern, rule) ==
    IF RulesHas(rs, urlPattern)
    THEN [i \in 1..Len(rs) |->
            IF rs[i].pattern = urlPattern
            THEN [pattern |-> urlPattern, rule |-> rule] ELSE rs[i]]
    ELSE Append(rs, [pattern |-> urlPattern, rule |-> rule])

\* rules.delete(urlPattern)
RulesDelete(rs, urlPattern) == SelectSeq(rs, LAMBDA e : e.pattern # urlPattern)

\* the place of e in a list sorted by non-increasing pattern length, behind
\* the entries that are not shorter
InsertByLength(sorted, e) ==
    LET before == SelectSeq(sorted, LAMBDA x :
                      StringLength(x.pattern) >= StringLength(e.pattern))
        after == SelectSeq(sorted, LAMBDA x :
                      StringLength(x.pattern) < StringLength(e.pattern))
    IN  before \o <<e>> \o after

\* patterns.sort((a, b) => b.pattern.length - a.pattern.length), a stable sort
RECURSIVE SortByLength(_, _)
SortByLength(todo, sorted) ==
    IF todo = <<>> THEN sorted
    ELSE SortByLength(Tail(todo), InsertByLength(sorted, Head(todo)))

\* setCushion that pushes the compiled entry and does not sort
PatternsAfterSetUnsorted(ps, urlPattern, rule) ==
    IF IsCompiledPattern(urlPattern)
    THEN Append(ps, [regex |-> createPatternRegex(urlPattern),
                     rule |-> rule,
                     pattern |-> urlPattern])
    ELSE ps

\* the patterns list after setCushion(urlPattern, rule)
PatternsAfterSet(ps, urlPattern, rule) ==
    IF IsCompiledPattern(urlPattern)
    THEN SortByLength(Append(ps, [regex |-> createPatternRegex(urlPattern),
                                  rule |-> rule,
                                  pattern |-> urlPattern]),
                      <<>>)
    ELSE ps

\* PatternsAfterRemove taking out only the first entry of that pattern
PatternsAfterRemoveFirstOnly(ps, urlPattern) ==
    IF \E i \in 1..Len(ps) : ps[i].pattern = urlPattern
    THEN LET first == CHOOSE i \in 1..Len(ps) :
                         /\ ps[i].pattern = urlPattern
                         /\ \A j \in 1..(i - 1) : ps[j].pattern # urlPattern
         IN  SubSeq(ps, 1, first - 1) \o SubSeq(ps, first + 1, Len(ps))
    ELSE ps

\* the patterns list after removeCushion(urlPattern)
PatternsAfterRemove(ps, urlPattern) ==
    SelectSeq(ps, LAMBDA e : e.pattern # urlPattern)

---------------------------------------------------------------------------
(* The URL patterns and URLs of the model, getCushion, and the calls the   *)
(* registry specification makes                                            *)

\* the CushionManager calls of one run
MaxRegOps == 4

PatLiteral == <<"/api", "/", "user">>
PatExact == <<"/api", "/", "user", "/", "123">>
PatParam == <<"/api", "/", "user", "/", ":id">>
PatWild == <<"/api", "/", "*">>
PatQuery == <<"/api", "/", "user", "?", "version", "=", "v2">>

PatternSet == {PatLiteral, PatExact, PatParam, PatWild, PatQuery}

UrlSet ==
    { <<"/api", "/", "user">>,
      <<"/api", "/", "users">>,
      <<"/api", "/", "user", "/", "123">>,
      <<"/api", "/", "user", "/", "456">>,
      <<"/api", "/", "user", "/", "123", "/", "profile">>,
      <<"/api", "/", "user", "?", "version", "=", "v2">>,
      <<"/api", "/", "user", "?", "version", "=", "v1">>,
      <<"/api", "/", "user", "?", "version", "=", "v2", "&", "locale", "=", "en">>,
      <<"/api", "/", "user", "?", "version", "=", "v1", "&", "version", "=", "v2">>,
      <<"/api", "/", "user", "/", "123", "?", "version", "=", "v2">>,
      <<"/other">> }

\* every URL looked up: the URLs above and the pattern strings themselves
AllUrls == UrlSet \cup PatternSet

\* matchesWithQuery and regex.test for every URL and pattern of the model,
\* computed once: Resolve looks the answers up
QueryMatchTable ==
    [url \in AllUrls |-> [pattern \in PatternSet |-> matchesWithQuery(url, pattern)]]
RegexTestTable ==
    [url \in AllUrls |-> [pattern \in PatternSet |->
        RegexTest(createPatternRegex(pattern), Split(url, <<"?">>)[1])]]

\* this.matchesWithQuery(url, pattern) in getCushion
QueryMatches(url, pattern) == QueryMatchTable[url][pattern]

\* regex.test(urlWithoutQuery) in getCushion, for a compiled entry
EntryMatches(entry, url) == RegexTestTable[url][entry.pattern]

\* Resolve trying the compiled patterns before the query-qualified rules
ResolvePatternsFirst(rs, ps, url) ==
    LET byQuery == SelectSeq(rs, LAMBDA e :
                       Includes(e.pattern, "?") /\ QueryMatches(url, e.pattern))
        byPattern == SelectSeq(ps, LAMBDA e : EntryMatches(e, url))
    IN  IF RulesHas(rs, url) THEN <<rs[RulesIndex(rs, url)]>>
        ELSE IF byPattern # <<>>
             THEN <<[pattern |-> Head(byPattern).pattern, rule |-> Head(byPattern).rule]>>
        ELSE IF byQuery # <<>> THEN <<Head(byQuery)>>
        ELSE <<>>

\* Resolve looking the URL up in the Map without its query string as well
ResolveStrippingQuery(rs, ps, url) ==
    LET path == Split(url, <<"?">>)[1]
        byQuery == SelectSeq(rs, LAMBDA e :
                       Includes(e.pattern, "?") /\ QueryMatches(url, e.pattern))
        byPattern == SelectSeq(ps, LAMBDA e : EntryMatches(e, url))
    IN  IF RulesHas(rs, url) THEN <<rs[RulesIndex(rs, url)]>>
        ELSE IF RulesHas(rs, path) THEN <<rs[RulesIndex(rs, path)]>>
        ELSE IF byQuery # <<>> THEN <<Head(byQuery)>>
        ELSE IF byPattern # <<>>
             THEN <<[pattern |-> Head(byPattern).pattern, rule |-> Head(byPattern).rule]>>
        ELSE <<>>

\* The entry getCushion(url) takes the rule from: <<[pattern, rule]>>, or
\* <<>> when it returns null.  Each for loop returns at its first hit.
Resolve(rs, ps, url) ==
    LET byQuery == SelectSeq(rs, LAMBDA e :
                       Includes(e.pattern, "?") /\ QueryMatches(url, e.pattern))
        byPattern == SelectSeq(ps, LAMBDA e : EntryMatches(e, url))
    IN  IF RulesHas(rs, url) THEN <<rs[RulesIndex(rs, url)]>>
        ELSE IF byQuery # <<>> THEN <<Head(byQuery)>>
        ELSE IF byPattern # <<>>
             THEN <<[pattern |-> Head(byPattern).pattern, rule |-> Head(byPattern).rule]>>
        ELSE <<>>

getCushion(rs, ps, url) ==
    LET hit == Resolve(rs, ps, url) IN IF hit = <<>> THEN NoRule ELSE hit[1].rule

RuleA == Rule(<<Entry("name", PathIns(<<"user_name">>))>>, "none", NoMapping)
RuleB == Rule(<<Entry("name", PathIns(<<"user", ".", "name">>))>>, "none", NoMapping)
RegistryRules == {RuleA, RuleB}

\* new CushionManager()
RegistryNew ==
    /\ rules = <<>>
    /\ patterns = <<>>
    /\ regLast = [op |-> "new", pattern |-> <<>>, rule |-> NoRule,
                  rules |-> <<>>, patterns |-> <<>>]
    /\ regOps = 0

EngineIdle ==
    /\ engData = Undef
    /\ engMapping = <<>>
    /\ engResult = Undef
    /\ engPc = "idle"

\* the fetch of the platform, which globalThis.fetch is before any activate()
NativeFetch == [kind |-> "native"]

\* a second new ShockAbsorber(...), whose constructor reads globalThis.fetch
\* too; other code holds no reference to a fetch yet
SecondNew == [isActive |-> FALSE, originalFetch |-> NativeFetch]
NoFetch == [kind |-> "none"]
AmbientNew == second = SecondNew /\ savedFetch = NoFetch

\* new Cushion() without its CushionManager: new PluginEcosystem(engine) and
\* new ShockAbsorber(...), whose constructor reads globalThis.fetch; the
\* application has called nothing yet
FacadeNew ==
    /\ isActive = FALSE
    /\ originalFetch = NativeFetch
    /\ globalFetch = NativeFetch
    /\ AmbientNew
    /\ plugins = <<>>
    /\ absorbHooks = <<>>
    /\ requestHooks = <<>>
    /\ responseHooks = <<>>
    /\ calls = <<>>
    /\ events = 0

Called(op, urlPattern, rule) ==
    /\ regOps < MaxRegOps
    /\ regOps' = regOps + 1
    /\ regLast' = [op |-> op, pattern |-> urlPattern, rule |-> rule,
                   rules |-> rules, patterns |-> patterns]

\* manager.setCushion(urlPattern, rule)
setCushion(urlPattern, rule) ==
    /\ Called("setCushion", urlPattern, rule)
    /\ rules' = RulesSet(rules, urlPattern, rule)
    /\ patterns' = PatternsAfterSet(patterns, urlPattern, rule)
    /\ UNCHANGED <<engVars, facadeVars>>

\* manager.removeCushion(urlPattern)
removeCushion(urlPattern) ==
    /\ Called("removeCushion", urlPattern, NoRule)
    /\ rules' = RulesDelete(rules, urlPattern)
    /\ patterns' = PatternsAfterRemove(patterns, urlPattern)
    /\ UNCHANGED <<engVars, facadeVars>>

\* manager.clearAll()
clearAll ==
    /\ Called("clearAll", <<>>, NoRule)
    /\ rules' = <<>>
    /\ patterns' = <<>>
    /\ UNCHANGED <<engVars, facadeVars>>

InitRegistry == RegistryNew /\ EngineIdle /\ FacadeNew

NextRegistry ==
    \/ \E urlPattern \in PatternSet, rule \in RegistryRules : setCushion(urlPattern, rule)
    \/ \E urlPattern \in PatternSet : removeCushion(urlPattern)
    \/ clearAll

---------------------------------------------------------------------------
(* The calls of absorb the engine specification makes *)

\* the longest mapping of MappingSet
MaxMappingLen == 2

StableKeys == {"name", "user_name", "mapping"}

Instructions ==
    { PathIns(<<"user_name">>),
      PathIns(<<"user_email">>),
      PathIns(<<"user", ".", "name">>),
      PathIns(<<"posts", ".", "*", ".", "title">>),
      PathIns(<<"posts", "[0]", ".", "title">>),
      FnIns("fnThrow"),
      FnIns("fnConst"),
      FnIns("fnNested") }

\* mappings of up to MaxMappingLen entries, no stable key twice
MappingSet ==
    UNION { { m \in [1..n -> [k : StableKeys, ins : Instructions]] :
                \A i, j \in 1..n : i # j => m[i].k # m[j].k }
            : n \in 0..MaxMappingLen }

UserKim == Obj(<<Prop("user_name", Str("Kim")),
                 Prop("user_email", Str("kim@example.com"))>>)
UserNoEmail == Obj(<<Prop("user_name", Str("Lee"))>>)
UserNested == Obj(<<Prop("user", Obj(<<Prop("name", Str("Kim"))>>)),
                    Prop("extra", Num(1))>>)
UserNull == Obj(<<Prop("user", Null)>>)
Posts == Obj(<<Prop("posts", Arr(<<Obj(<<Prop("title", Str("A"))>>),
                                   Obj(<<Prop("title", Str("B"))>>)>>))>>)
PostsNotArray == Obj(<<Prop("posts", Obj(<<Prop("title", Str("A"))>>))>>)

Primitives ==
    { Null, Undef, Str("string"), Str(""), Num(42), Num(0), Bool(TRUE), Bool(FALSE) }

PlainObjects ==
    { Obj(<<>>), UserKim, UserNoEmail, UserNested, UserNull, Posts, PostsNotArray }

Arrays ==
    { Arr(<<>>), Arr(<<UserKim, UserNoEmail>>), Arr(<<UserNested, Null, Str("x")>>),
      Arr(<<Arr(<<UserKim>>), UserNull>>) }

DataSet == Primitives \cup PlainObjects \cup Arrays

StableKeysOf(mapping) == {mapping[i].k : i \in 1..Len(mapping)}

InitAbsorb ==
    /\ engData \in DataSet
    /\ engMapping \in MappingSet
    /\ engResult = Undef
    /\ engPc = "idle"
    /\ RegistryNew
    /\ FacadeNew

\* engine.absorb(engData, engMapping)
AbsorbCall ==
    /\ engPc = "idle"
    /\ LET out == absorb(engData, engMapping)
       IN  /\ engPc' = IF out.thrown THEN "threw" ELSE "returned"
           /\ engResult' = out.val
    /\ UNCHANGED <<engData, engMapping, regVars, regHistory, facadeVars>>

vars == <<engVars, regVars, regHistory, facadeVars>>

NextAbsorb == AbsorbCall

SpecAbsorb == InitAbsorb /\ [][NextAbsorb]_vars

SpecRegistry == InitRegistry /\ [][NextRegistry]_vars

---------------------------------------------------------------------------
(* The mapping engine: claims *)

\* C2, as stated: whatever data is, absorb returns an object whose keys are
\* exactly the stable keys of the mapping.
C2_KeysForAnyData ==
    engPc # "idle" =>
        /\ engPc = "returned"
        /\ engResult.t = "object"
        /\ KeysOf(engResult) = StableKeysOf(engMapping)

\* C2, amended: for data that is a non-null, non-array object, absorb returns
\* an object whose keys are exactly the stable keys of the mapping, whatever
\* the keys of data are.
C2_KeysForObjectData ==
    (engPc # "idle" /\ engData.t = "object") =>
        /\ engPc = "returned"
        /\ engResult.t = "object"
        /\ KeysOf(engResult) = StableKeysOf(engMapping)

\* a source field is dropped, and a stable key the source lacks is there
C2_Witness ==
    /\ engPc = "returned"
    /\ engData = UserKim
    /\ StableKeysOf(engMapping) = {"name", "mapping"}
    /\ KeysOf(engResult) = {"name", "mapping"}

\* a dotted path without index suffix or wildcard resolves in v when every
\* segment names an own property of the object reached so far
RECURSIVE Resolves(_, _)
Resolves(v, segs) ==
    IF segs = <<>> THEN TRUE
    ELSE /\ v.t = "object"
         /\ Len(Head(segs)) = 1
         /\ HasOwn(v, Head(segs)[1])
         /\ Resolves(OwnValue(v, Head(segs)[1]), Tail(segs))

PlainDotted(path) ==
    \A i \in 1..Len(path) : path[i] # "*" /\ path[i] \notin IndexTokens

\* entry e of a mapping fails on data d
FieldFails(d, e) ==
    \/ e.ins.kind = "fn" /\ FnApply(e.ins.fn, d).thrown
    \/ /\ e.ins.kind = "path"
       /\ PlainDotted(e.ins.path)
       /\ ~Resolves(d, Split(e.ins.path, <<".">>))

\* C3: for object data absorb does not throw; a field whose path does not
\* resolve or whose function throws is present with the no-value marker, and
\* every field has the value it has when it is the only field of the mapping.
C3_FieldFailureIsLocal ==
    (engPc # "idle" /\ engData.t = "object") =>
        /\ engPc = "returned"
        /\ engResult.t = "object"
        /\ \A i \in 1..Len(engMapping) :
              LET e == engMapping[i]
                  alone == absorb(engData, <<e>>)
              IN  /\ HasOwn(engResult, e.k)
                  /\ FieldFails(engData, e) => OwnValue(engResult, e.k) = Undef
                  /\ ~alone.thrown
                  /\ OwnValue(engResult, e.k) = OwnValue(alone.val, e.k)

\* a throwing function beside a path that resolves
C3_Witness ==
    /\ engPc = "returned"
    /\ engData = UserKim
    /\ engMapping = <<Entry("mapping", FnIns("fnThrow")),
                      Entry("name", PathIns(<<"user_name">>))>>
    /\ engResult = Obj(<<Prop("mapping", Undef), Prop("name", Str("Kim"))>>)

\* C4: absorb of an array is the array of absorb of its elements, in order.
C4_ArrayDistribution ==
    (engPc # "idle" /\ IsArray(engData)) =>
        /\ engPc = "returned"
        /\ IsArray(engResult)
        /\ Len(engResult.items) = Len(engData.items)
        /\ \A i \in 1..Len(engData.items) :
              engResult.items[i] = absorb(engData.items[i], engMapping).val

C4_Witness ==
    /\ engPc = "returned"
    /\ engData = Arr(<<UserKim, UserNoEmail>>)
    /\ engMapping = <<Entry("name", PathIns(<<"user_name">>))>>
    /\ engResult = Arr(<<Obj(<<Prop("name", Str("Kim"))>>),
                         Obj(<<Prop("name", Str("Lee"))>>)>>)

\* C5: null, undefined, strings, numbers and booleans are returned unchanged.
C5_PrimitivesPassThrough ==
    (engPc # "idle"
        /\ engData.t \in {"null", "undefined", "string", "number", "boolean"}) =>
        /\ engPc = "returned"
        /\ engResult = engData

C5_Witness ==
    /\ engPc = "returned"
    /\ engData = Null
    /\ Len(engMapping) = 2
    /\ engResult = Null

---------------------------------------------------------------------------
(* The rule registry: claims *)

\* the rules entries whose query-qualified pattern matches url
QueryHits(rs, url) ==
    {i \in 1..Len(rs) : Includes(rs[i].pattern, "?") /\ QueryMatches(url, rs[i].pattern)}

\* the compiled entries whose regex matches url without its query
PatternHits(ps, url) ==
    {i \in 1..Len(ps) : EntryMatches(ps[i], url)}

Url123 == <<"/api", "/", "user", "/", "123">>
Url456 == <<"/api", "/", "user", "/", "456">>

\* C6: getCushion takes the rule stored under the URL itself if there is
\* one, else the rule of a matching query-qualified pattern if there is one,
\* else the rule of a matching compiled pattern if there is one, else none;
\* with rules for /api/user/123 and /api/user/:id, /api/user/123 gets the
\* rule stored under it and /api/user/456 gets a rule compiled for
\* /api/user/:id.
C6_ResolutionOrder ==
    /\ \A url \in AllUrls :
          LET res == getCushion(rules, patterns, url)
          IN  IF RulesHas(rules, url) THEN res = rules[RulesIndex(rules, url)].rule
              ELSE IF QueryHits(rules, url) # {}
                   THEN \E i \in QueryHits(rules, url) : res = rules[i].rule
              ELSE IF PatternHits(patterns, url) # {}
                   THEN \E i \in PatternHits(patterns, url) : res = patterns[i].rule
              ELSE res = NoRule
    /\ (RulesHas(rules, PatExact) /\ RulesHas(rules, PatParam)) =>
          /\ getCushion(rules, patterns, Url123) = rules[RulesIndex(rules, PatExact)].rule
          /\ \E i \in 1..Len(patterns) :
                /\ patterns[i].pattern = PatParam
                /\ getCushion(rules, patterns, Url456) = patterns[i].rule

\* the exact rule and the pattern rule differ, and a URL with a
\* query-qualified hit and a compiled hit gets the query-qualified rule
C6_Witness ==
    /\ RulesHas(rules, PatExact) /\ RulesHas(rules, PatParam)
    /\ getCushion(rules, patterns, Url123) = RuleA
    /\ getCushion(rules, patterns, Url456) = RuleB
    /\ \E url \in UrlSet :
          /\ ~RulesHas(rules, url)
          /\ \E i \in QueryHits(rules, url) : rules[i].rule = RuleA
          /\ \E i \in PatternHits(patterns, url) : patterns[i].rule = RuleB
          /\ getCushion(rules, patterns, url) = RuleA

\* the name/value pairs of the query of a URL or of a pattern
PairsOf(s) ==
    LET params == SearchParams(QueryOf(s)) IN {params[i] : i \in 1..Len(params)}

\* the subset check: the same path, and every pair of the pattern's query
\* is a pair of the URL's query
SubsetMatch(url, pattern) ==
    /\ Split(url, <<"?">>)[1] = Split(pattern, <<"?">>)[1]
    /\ PairsOf(pattern) \subseteq PairsOf(url)

\* C7: a registered query-qualified pattern matches a URL exactly when the
\* paths are identical and every name/value pair of the pattern's query is
\* among the pairs of the URL's query.
C7_QuerySubset ==
    \A i \in 1..Len(rules), url \in AllUrls :
        Includes(rules[i].pattern, "?") =>
            (matchesWithQuery(url, rules[i].pattern) <=> SubsetMatch(url, rules[i].pattern))

\* the registry before the last call resolved url through urlPattern
ResolvedThrough(url, urlPattern) ==
    LET hit == Resolve(regLast.rules, regLast.patterns, url)
    IN  hit # <<>> /\ hit[1].pattern = urlPattern

\* C8: after setCushion(p, r2) on a registry that already held a rule for p,
\* every URL that resolved through p gets r2.
C8_Overwrite ==
    (regLast.op = "setCushion" /\ RulesHas(regLast.rules, regLast.pattern)) =>
        \A url \in AllUrls :
            ResolvedThrough(url, regLast.pattern) =>
                getCushion(rules, patterns, url) = regLast.rule

\* C9: after removeCushion(p) neither the literal table nor the compiled
\* list holds p, no URL resolves through p, and every URL that resolved
\* through another pattern resolves as before.
C9_RemoveOnlyThat ==
    regLast.op = "removeCushion" =>
        /\ ~RulesHas(rules, regLast.pattern)
        /\ \A i \in 1..Len(patterns) : patterns[i].pattern # regLast.pattern
        /\ \A url \in AllUrls :
              LET now == Resolve(rules, patterns, url)
                  before == Resolve(regLast.rules, regLast.patterns, url)
              IN  /\ now # <<>> => now[1].pattern # regLast.pattern
                  /\ (before # <<>> /\ before[1].pattern # regLast.pattern) =>
                        now = before

\* a pattern registered twice is removed while another pattern serves a URL
C9_Witness ==
    /\ regLast.op = "removeCushion"
    /\ regLast.pattern = PatParam
    /\ Cardinality({i \in 1..Len(regLast.patterns) :
                      regLast.patterns[i].pattern = PatParam}) = 2
    /\ ResolvedThrough(Url123, PatParam)
    /\ ResolvedThrough(<<"/api", "/", "users">>, PatWild)
    /\ getCushion(rules, patterns, Url123) = getCushion(rules, patterns, <<"/api", "/", "users">>)
    /\ getCushion(rules, patterns, Url123) # NoRule

---------------------------------------------------------------------------
(* JSON texts and Response objects *)

\* What JSON.stringify writes of a value that is not undefined: a property
\* whose value is undefined is left out, an undefined element of an array
\* becomes null.
RECURSIVE JsonOf(_)
JsonOf(v) ==
    IF v.t = "object"
    THEN LET kept == SelectSeq(v.entries, LAMBDA e : e.v.t # "undefined")
         IN  Obj([i \in 1..Len(kept) |-> Prop(kept[i].k, JsonOf(kept[i].v))])
    ELSE IF v.t = "array"
    THEN Arr([i \in 1..Len(v.items) |->
                IF v.items[i].t = "undefined" THEN Null ELSE JsonOf(v.items[i])])
    ELSE v

\* The text of a body: the JSON text of a value, a text that is not JSON, or
\* no body at all.
JsonText(v) == [text |-> "json", value |-> v]
MalformedText == [text |-> "malformed"]
NoBody == [text |-> "empty"]

\* The body of a Response that has been read already: bodyUsed is true, and
\* clone() and json() both fail on it.
UsedBody == [text |-> "used"]
BodyUsed(response) == response.body = UsedBody

\* JSON.stringify(data): a text, or undefined for undefined
JsonStringify(data) ==
    IF data.t = "undefined" THEN Undef ELSE JsonText(JsonOf(data))

\* response.json(): the value the body text parses to, or a rejection
ResponseJson(body) ==
    IF body.text = "json" THEN Returned(body.value) ELSE Thrown

\* Header values are token strings.  headers.get gives null for a header
\* that is absent: NoHeader stands for it.
NoHeader == <<>>
JsonType == <<"application/json">>
JsonTypeCharset == <<"application/json", ";", "charset=utf-8">>
HtmlType == <<"text/html">>

\* the wrapper with no test of the content type
NotJsonTypeIgnored(contentType) == FALSE

\* !contentType || !contentType.includes("application/json")
NotJsonType(contentType) ==
    contentType = NoHeader \/ ~Includes(contentType, "application/json")

\* A Response: ok is status in 200..299.
Response(status, contentType, body) ==
    [ok |-> status \in 200..299, status |-> status,
     contentType |-> contentType, body |-> body]

\* createCushionedResponse(data, originalResponse)
createCushionedResponse(data, originalResponse) ==
    LET jsonString == JsonStringify(data)
    IN  Response(originalResponse.status, originalResponse.contentType,
                 IF jsonString = Undef THEN NoBody ELSE jsonString)

---------------------------------------------------------------------------
(* PluginEcosystem *)

\* the property names of the elements of an array, in order
IndexNames == <<"0", "1", "2">>

\* { ...data }: the own enumerable properties of data; null, undefined,
\* numbers and booleans have none, an array (of up to three elements here)
\* has its indices.  No hook of the model is handed a string.
Spread(data) ==
    IF data.t = "object" THEN data
    ELSE IF data.t = "array"
    THEN Obj([i \in 1..Len(data.items) |-> Prop(IndexNames[i], data.items[i])])
    ELSE Obj(<<>>)

\* The hooks plugins of the model register: what each returns, or that it
\* throws.
\*   logRequest       (url, options) => { logs.push(...) }
\*   errorRequest     () => { throw new Error(...) }
\*   logResponse      (url, data) => { logs.push(...); return data }
\*   errorResponse    () => { throw new Error(...) }
\*   versionResponse  (url, data) => ({ ...data, version: "v2" })
\*   logAbsorb        (data, mapping, context) => { logs.push(...); return data }
\*   errorAbsorb      () => { throw new Error(...) }
\*   stepAbsorb       (data) => ({ ...data, step1: true })
\*   forgetAbsorb     (data, mapping, context) => { seen.push(data) }
\*   step2Absorb      (data) => ({ ...data, step2: true })
\*   step3Absorb      (data) => ({ ...data, step3: true })
\*   version1Response (url, data) => ({ ...data, version: 1 })
RequestHookApply(hook, url, options) ==
    IF hook = "errorRequest" THEN Thrown ELSE Returned(Undef)

ResponseHookApply(hook, url, data) ==
    IF hook = "errorResponse" THEN Thrown
    ELSE IF hook = "versionResponse"
         THEN Returned(SetProp(Spread(data), "version", Str("v2")))
    ELSE IF hook = "version1Response"
         THEN Returned(SetProp(Spread(data), "version", Num(1)))
    ELSE Returned(data)

AbsorbHookApply(hook, data, mapping, context) ==
    IF hook = "errorAbsorb" THEN Thrown
    ELSE IF hook = "forgetAbsorb" THEN Returned(Undef)
    ELSE IF hook = "stepAbsorb"
         THEN Returned(SetProp(Spread(data), "step1", Bool(TRUE)))
    ELSE IF hook = "step2Absorb"
         THEN Returned(SetProp(Spread(data), "step2", Bool(TRUE)))
    ELSE IF hook = "step3Absorb"
         THEN Returned(SetProp(Spread(data), "step3", Bool(TRUE)))
    ELSE Returned(data)

\* the callback of the reduce without its try and catch: the hook's throw
\* leaves the callback
CatchHookRethrowing(r, result) == r

\* try { return hook(...) } catch (error) { return result }
CatchHook(r, result) == IF r.thrown THEN Returned(result) ELSE r

\* what a reduce has come to: whether a throw left it, the value accumulated
\* and the calls made of the hooks, each with the data it was given
Reduced(thrown, val, made) == [thrown |-> thrown, val |-> val, made |-> made]

\* the response hooks reduced from the last one registered to the first
RECURSIVE responseHooksReduceRight(_, _, _)
responseHooksReduceRight(hooks, url, data) ==
    IF hooks = <<>> THEN Reduced(FALSE, data, <<>>)
    ELSE LET hook == hooks[Len(hooks)]
             step == CatchHook(ResponseHookApply(hook, url, data), data)
             rest == responseHooksReduceRight(SubSeq(hooks, 1, Len(hooks) - 1), url,
                                              step.val)
             call == [hook |-> hook, url |-> url, data |-> data]
         IN  IF step.thrown THEN Reduced(TRUE, Undef, <<call>>)
             ELSE Reduced(rest.thrown, rest.val, <<call>> \o rest.made)

\* this.responseHooks.reduce(callback, data): a throw that leaves the
\* callback ends the reduce
RECURSIVE responseHooksReduce(_, _, _)
responseHooksReduce(hooks, url, data) ==
    IF hooks = <<>> THEN Reduced(FALSE, data, <<>>)
    ELSE LET hook == Head(hooks)
             step == CatchHook(ResponseHookApply(hook, url, data), data)
             rest == responseHooksReduce(Tail(hooks), url, step.val)
             call == [hook |-> hook, url |-> url, data |-> data]
         IN  IF step.thrown THEN Reduced(TRUE, Undef, <<call>>)
             ELSE Reduced(rest.thrown, rest.val, <<call>> \o rest.made)

\* executeResponseHooks(url, data) over the hooks registered
executeResponseHooks(hooks, url, data) == responseHooksReduce(hooks, url, data).val

\* the absorb hooks reduced up to the first that throws, whose catch ends
\* the chain with the value reached
RECURSIVE absorbHooksReduceBreaking(_, _, _, _)
absorbHooksReduceBreaking(hooks, data, mapping, context) ==
    IF hooks = <<>> THEN Reduced(FALSE, data, <<>>)
    ELSE LET hook == Head(hooks)
             r == AbsorbHookApply(hook, data, mapping, context)
             rest == absorbHooksReduceBreaking(Tail(hooks), r.val, mapping, context)
             call == [hook |-> hook, data |-> data, mapping |-> mapping,
                      context |-> context]
         IN  IF r.thrown THEN Reduced(FALSE, data, <<call>>)
             ELSE Reduced(rest.thrown, rest.val, <<call>> \o rest.made)

\* this.absorbHooks.reduce(callback, data)
RECURSIVE absorbHooksReduce(_, _, _, _)
absorbHooksReduce(hooks, data, mapping, context) ==
    IF hooks = <<>> THEN Reduced(FALSE, data, <<>>)
    ELSE LET hook == Head(hooks)
             step == CatchHook(AbsorbHookApply(hook, data, mapping, context), data)
             rest == absorbHooksReduce(Tail(hooks), step.val, mapping, context)
             call == [hook |-> hook, data |-> data, mapping |-> mapping,
                      context |-> context]
         IN  IF step.thrown THEN Reduced(TRUE, Undef, <<call>>)
             ELSE Reduced(rest.thrown, rest.val, <<call>> \o rest.made)

\* executeAbsorbHooks(data, mapping, context) over the hooks registered
executeAbsorbHooks(hooks, data, mapping, context) ==
    absorbHooksReduce(hooks, data, mapping, context).val

\* executeRequestHooks that a throwing hook ends
RECURSIVE executeRequestHooksBreaking(_, _, _)
executeRequestHooksBreaking(hooks, url, options) ==
    IF hooks = <<>> THEN <<>>
    ELSE <<[hook |-> Head(hooks), url |-> url, options |-> options]>>
         \o (IF RequestHookApply(Head(hooks), url, options).thrown THEN <<>>
             ELSE executeRequestHooksBreaking(Tail(hooks), url, options))

\* executeRequestHooks(url, options): the calls the forEach makes; what a
\* hook returns is dropped and what it throws is caught
RECURSIVE executeRequestHooks(_, _, _)
executeRequestHooks(hooks, url, options) ==
    IF hooks = <<>> THEN <<>>
    ELSE <<[hook |-> Head(hooks), url |-> url, options |-> options]>>
         \o executeRequestHooks(Tail(hooks), url, options)

\* A plugin: its name and the registrations its install(core) makes, in order.
Plugin(name, install) == [name |-> name, install |-> install]
OnRequest(hook) == [on |-> "request", hook |-> hook]
OnResponse(hook) == [on |-> "response", hook |-> hook]
OnAbsorb(hook) == [on |-> "absorb", hook |-> hook]

\* the hooks of one kind that plugin.install(core) pushes, in order
Installed(plugin, kind) ==
    LET regs == SelectSeq(plugin.install, LAMBDA r : r.on = kind)
    IN  [i \in 1..Len(regs) |-> regs[i].hook]

PluginsHas(ps, name) == \E i \in 1..Len(ps) : ps[i].name = name

\* a remove that leaves the Map as it is
PluginsDeleteNothing(ps, name) == ps

\* plugins.delete(pluginName)
PluginsDelete(ps, name) == SelectSeq(ps, LAMBDA p : p.name # name)

---------------------------------------------------------------------------
(* ShockAbsorber: the function activate() installs as globalThis.fetch *)

\* the function activate() installs; it reads the fields of its
\* ShockAbsorber when it runs
WrapperFetch == [kind |-> "wrapper"]

\* the wrapper with a predicate that is never consulted
ConditionIgnored(condition, data) == Returned(Bool(TRUE))

\* The predicates rules of the model carry: what each returns for data, or
\* that it throws.
\*   isV2  (data) => data.version === "v2"
ConditionApply(condition, data) ==
    IF data.t \in {"null", "undefined"} THEN Thrown
    ELSE Returned(Bool(GetProp(data, <<"version">>) = Str("v2")))

\* A call of globalThis.fetch(url): the function that was called (via), where
\* it stands (pc: "awaitFetch", "awaitJson" or "done"), the response the
\* platform's fetch gave, the rule getCushion returned, the steps of the
\* wrapper that ran (trace), the calls made of the request hooks (requested),
\* the hooks that were invoked, the mapping given to absorb (applied), what
\* absorb returned (absorbed: <<>> or <<value>>), the mapping and the context
\* given to the absorb hooks (hookMapping, hookContext), and what the caller
\* got.
NoResponse == [t |-> "undefined"]
Pending == [kind |-> "pending"]
Rejected == [kind |-> "rejected"]
NoContext == [url |-> <<>>]
Call(url, via, trace, requested) ==
    [url |-> url, via |-> via, pc |-> "awaitFetch", response |-> NoResponse,
     cushion |-> NoRule, trace |-> trace, requested |-> requested,
     invoked |-> [k \in 1..Len(requested) |-> requested[k].hook],
     applied |-> NoMapping, absorbed |-> <<>>, hookMapping |-> NoMapping,
     hookContext |-> NoContext, result |-> Pending]

\* return <object>: the response itself ("original"), its clone ("clone") or
\* a newly constructed Response ("new"), after the steps given
Returns(c, object, response, steps) ==
    [c EXCEPT !.pc = "done", !.trace = c.trace \o steps,
              !.result = [kind |-> "response", object |-> object,
                          response |-> response]]

\* the wrapper with no test of response.ok
\* the async wrapper throws outside its try: its promise rejects
Throws(c, steps) ==
    [c EXCEPT !.pc = "done", !.trace = c.trace \o steps, !.result = Rejected]

NotOkIgnored(response) == FALSE

\* !response.ok
NotOk(response) == ~response.ok

\* the wrapper testing the content type before it looks the rule up
AfterFetchTypeFirst(c, response, rs, ps) ==
    LET cushion == getCushion(rs, ps, c.url)
        got == [c EXCEPT !.response = response]
        found == [got EXCEPT !.cushion = cushion]
    IN  IF NotOk(response) THEN Returns(got, "original", response, <<>>)
        ELSE IF NotJsonType(response.contentType)
             THEN Returns(got, "original", response, <<"contentType">>)
        ELSE IF cushion = NoRule
             THEN Returns(found, "original", response, <<"contentType", "getCushion">>)
        ELSE IF BodyUsed(response)
             THEN Throws(found, <<"contentType", "getCushion", "clone">>)
        ELSE [found EXCEPT !.pc = "awaitJson",
                           !.trace = c.trace \o
                                     <<"contentType", "getCushion", "clone", "json">>]

\* The wrapper from the resolution of originalFetch to its return or to
\* await response.json(); rs and ps are the registry at that moment.
AfterFetch(c, response, rs, ps) ==
    LET cushion == getCushion(rs, ps, c.url)
        got == [c EXCEPT !.response = response]
        found == [got EXCEPT !.cushion = cushion]
    IN  IF NotOk(response) THEN Returns(got, "original", response, <<>>)
        ELSE IF cushion = NoRule
             THEN Returns(found, "original", response, <<"getCushion">>)
        ELSE IF BodyUsed(response)
             THEN Throws(found, <<"getCushion", "clone">>)
        ELSE IF NotJsonType(response.contentType)
             THEN Returns(found, "original", response,
                          <<"getCushion", "clone", "contentType">>)
        ELSE [found EXCEPT !.pc = "awaitJson",
                           !.trace = c.trace \o
                                     <<"getCushion", "clone", "contentType", "json">>]

\* a catch that returns the response whose body was read
CaughtReturningRead(c, steps) == Returns(c, "original", c.response, steps)

\* catch (error) { return clonedResponse }
Caught(c, steps) == Returns(c, "clone", c.response, steps)

\* absorb, the absorb hooks and createCushionedResponse, for the mapping or
\* the fallback
Cushioned(c, processedData, mapping, hooks, steps) ==
    LET out == absorb(processedData, mapping)
        context == [url |-> c.url, originalData |-> processedData]
        cushionedData == executeAbsorbHooks(hooks, out.val, mapping, context)
        ran == [c EXCEPT !.applied = mapping]
    IN  IF out.thrown THEN Caught(ran, steps \o <<"absorb">>)
        ELSE Returns([ran EXCEPT !.invoked = @ \o hooks,
                                 !.absorbed = <<out.val>>,
                                 !.hookMapping = mapping,
                                 !.hookContext = context], "new",
                     createCushionedResponse(cushionedData, c.response),
                     steps \o <<"absorb", "absorbHooks", "createCushionedResponse">>)

\* the wrapper taking every rule to have a predicate, one that a rule without
\* it fails
HasConditionAlways(cushion) == TRUE

\* cushion.condition &&
HasCondition(cushion) == cushion.condition # "none"

\* the wrapper giving the predicate and absorb the payload as parsed, not
\* what the response hooks made of it
AfterJsonOnParsed(c, rHooks, aHooks) ==
    LET rawData == ResponseJson(c.response.body)
        cushion == c.cushion
        test == ConditionApply(cushion.condition, rawData.val)
        hooked == [c EXCEPT !.invoked = @ \o rHooks]
    IN  IF rawData.thrown THEN Caught(c, <<>>)
        ELSE IF HasCondition(cushion)
        THEN IF test.thrown THEN Caught(hooked, <<"responseHooks", "condition">>)
             ELSE IF Falsy(test.val)
             THEN IF cushion.fallback # NoMapping
                  THEN Cushioned(hooked, rawData.val, cushion.fallback, aHooks,
                                 <<"responseHooks", "condition">>)
                  ELSE Returns(hooked, "clone", c.response,
                               <<"responseHooks", "condition">>)
             ELSE Cushioned(hooked, rawData.val, cushion.mapping, aHooks,
                            <<"responseHooks", "condition">>)
        ELSE Cushioned(hooked, rawData.val, cushion.mapping, aHooks,
                       <<"responseHooks">>)

\* The wrapper from the settling of response.json() to its return; rHooks and
\* aHooks are the response hooks and the absorb hooks at that moment.
AfterJson(c, rHooks, aHooks) ==
    LET rawData == ResponseJson(c.response.body)
        processedData == executeResponseHooks(rHooks, c.url, rawData.val)
        cushion == c.cushion
        test == ConditionApply(cushion.condition, processedData)
        hooked == [c EXCEPT !.invoked = @ \o rHooks]
    IN  IF rawData.thrown THEN Caught(c, <<>>)
        ELSE IF HasCondition(cushion)
        THEN IF test.thrown THEN Caught(hooked, <<"responseHooks", "condition">>)
             ELSE IF Falsy(test.val)
             THEN IF cushion.fallback # NoMapping
                  THEN Cushioned(hooked, processedData, cushion.fallback, aHooks,
                                 <<"responseHooks", "condition">>)
                  ELSE Returns(hooked, "clone", c.response,
                               <<"responseHooks", "condition">>)
             ELSE Cushioned(hooked, processedData, cushion.mapping, aHooks,
                            <<"responseHooks", "condition">>)
        ELSE Cushioned(hooked, processedData, cushion.mapping, aHooks,
                       <<"responseHooks">>)

---------------------------------------------------------------------------
(* The facade: Cushion and the functions of index.ts on the global instance *)

\* the calls the application makes: facade calls and fetch calls
MaxEvents == 3

Event == events < MaxEvents /\ events' = events + 1

\* activate() without `if (this.isActive) return`
ShockAbsorberActivateAgain ==
    /\ originalFetch' = globalFetch
    /\ globalFetch' = WrapperFetch
    /\ isActive' = TRUE
    /\ UNCHANGED ambientVars

\* shockAbsorber.activate()
ShockAbsorberActivate ==
    IF isActive THEN UNCHANGED icVars
    ELSE /\ originalFetch' = globalFetch
         /\ globalFetch' = WrapperFetch
         /\ isActive' = TRUE
         /\ UNCHANGED ambientVars

\* deactivate() putting back the fetch of the platform, not the captured one
ShockAbsorberDeactivateToNative ==
    IF ~isActive THEN UNCHANGED icVars
    ELSE /\ globalFetch' = NativeFetch
         /\ isActive' = FALSE
         /\ UNCHANGED <<originalFetch, ambientVars>>

\* shockAbsorber.deactivate()
ShockAbsorberDeactivate ==
    IF ~isActive THEN UNCHANGED icVars
    ELSE /\ globalFetch' = originalFetch
         /\ isActive' = FALSE
         /\ UNCHANGED <<originalFetch, ambientVars>>

\* The second argument of setupCushion: a rule object or a bare mapping.
RuleArg(rule) == [given |-> "rule", rule |-> rule]
MappingArg(mapping) == [given |-> "mapping", mapping |-> mapping]

\* "mapping" in rule
HasMappingKey(arg) ==
    \/ arg.given = "rule"
    \/ \E i \in 1..Len(arg.mapping) : arg.mapping[i].k = "mapping"

\* the characters of the path strings given under the stable key "mapping"
Characters(tok) ==
    CASE tok = "id" -> <<"i", "d">>
      [] OTHER -> <<tok>>

\* Object.entries(value) of a value that stands where a mapping is expected:
\* a string has one entry for each character, under its index; a function
\* has none
ObjectEntries(ins) ==
    IF ins.kind = "fn" THEN <<>>
    ELSE LET chars == Characters(ins.path[1])
         IN  [i \in 1..Len(chars) |-> Entry(IndexNames[i], PathIns(<<chars[i]>>))]

\* Cushion.setupCushion: "mapping" in rule ? rule : { mapping: rule }.  A bare
\* mapping with the stable key "mapping" is taken to be a rule, whose mapping
\* is then the instruction of that key, a string or a function; a Rule holds
\* it as the entries absorb finds in it.  The object has no condition and
\* no fallback.
CushionRuleOf(arg) ==
    IF HasMappingKey(arg)
    THEN IF arg.given = "rule" THEN arg.rule
         ELSE Rule(ObjectEntries(arg.mapping[CHOOSE i \in 1..Len(arg.mapping) :
                                                 arg.mapping[i].k = "mapping"].ins),
                   "none", NoMapping)
    ELSE Rule(arg.mapping, "none", NoMapping)

\* setupCushion(urlPattern, rule) of index.ts
setupCushion(urlPattern, arg) ==
    /\ Event
    /\ rules' = RulesSet(rules, urlPattern, CushionRuleOf(arg))
    /\ patterns' = PatternsAfterSet(patterns, urlPattern, CushionRuleOf(arg))
    /\ ShockAbsorberActivate
    /\ UNCHANGED <<engVars, regHistory, hookVars, calls>>

\* removeCushion(urlPattern) of index.ts
removeCushionApi(urlPattern) ==
    /\ Event
    /\ rules' = RulesDelete(rules, urlPattern)
    /\ patterns' = PatternsAfterRemove(patterns, urlPattern)
    /\ UNCHANGED <<engVars, regHistory, icVars, hookVars, calls>>

\* use(plugin) without the test of plugins.has: the Map entry of the name is
\* overwritten and install runs again
useOverwriting(plugin) ==
    /\ Event
    /\ plugins' = IF PluginsHas(plugins, plugin.name)
                  THEN [i \in 1..Len(plugins) |->
                           IF plugins[i].name = plugin.name THEN plugin ELSE plugins[i]]
                  ELSE Append(plugins, plugin)
    /\ absorbHooks' = absorbHooks \o Installed(plugin, "absorb")
    /\ requestHooks' = requestHooks \o Installed(plugin, "request")
    /\ responseHooks' = responseHooks \o Installed(plugin, "response")
    /\ UNCHANGED <<engVars, regVars, regHistory, icVars, calls>>

\* use(plugin)
use(plugin) ==
    /\ Event
    /\ IF PluginsHas(plugins, plugin.name) THEN UNCHANGED hookVars
       ELSE /\ plugins' = Append(plugins, plugin)
            /\ absorbHooks' = absorbHooks \o Installed(plugin, "absorb")
            /\ requestHooks' = requestHooks \o Installed(plugin, "request")
            /\ responseHooks' = responseHooks \o Installed(plugin, "response")
    /\ UNCHANGED <<engVars, regVars, regHistory, icVars, calls>>

\* removePlugin(pluginName) that takes the hooks of the plugin back as well
removePluginRetracting(pluginName) ==
    LET gone(kind) == UNION {{Installed(plugins[i], kind)[k] :
                                  k \in 1..Len(Installed(plugins[i], kind))} :
                             i \in {j \in 1..Len(plugins) : plugins[j].name = pluginName}}
    IN  /\ Event
        /\ plugins' = PluginsDelete(plugins, pluginName)
        /\ absorbHooks' = SelectSeq(absorbHooks, LAMBDA h : h \notin gone("absorb"))
        /\ requestHooks' = SelectSeq(requestHooks, LAMBDA h : h \notin gone("request"))
        /\ responseHooks' = SelectSeq(responseHooks, LAMBDA h : h \notin gone("response"))
        /\ UNCHANGED <<engVars, regVars, regHistory, icVars, calls>>

\* removePlugin(pluginName)
removePlugin(pluginName) ==
    /\ Event
    /\ plugins' = PluginsDelete(plugins, pluginName)
    /\ UNCHANGED <<engVars, regVars, regHistory, icVars, calls,
                   absorbHooks, requestHooks, responseHooks>>

\* activate()
activate ==
    /\ Event
    /\ ShockAbsorberActivate
    /\ UNCHANGED <<engVars, regVars, regHistory, hookVars, calls>>

\* deactivate() that clears the registry as well
deactivateClearing ==
    /\ Event
    /\ rules' = <<>>
    /\ patterns' = <<>>
    /\ ShockAbsorberDeactivate
    /\ UNCHANGED <<engVars, regHistory, hookVars, calls>>

\* deactivate()
deactivate ==
    /\ Event
    /\ ShockAbsorberDeactivate
    /\ UNCHANGED <<engVars, regVars, regHistory, hookVars, calls>>

\* reset() whose pluginEcosystem.reset() keeps the response hooks
resetKeepingHooks ==
    /\ Event
    /\ rules' = <<>>
    /\ patterns' = <<>>
    /\ plugins' = <<>>
    /\ absorbHooks' = <<>>
    /\ requestHooks' = <<>>
    /\ ShockAbsorberDeactivate
    /\ UNCHANGED <<engVars, regHistory, calls, responseHooks>>

\* reset(): cushionManager.clearAll(), pluginEcosystem.reset(), deactivate()
reset ==
    /\ Event
    /\ rules' = <<>>
    /\ patterns' = <<>>
    /\ plugins' = <<>>
    /\ absorbHooks' = <<>>
    /\ requestHooks' = <<>>
    /\ responseHooks' = <<>>
    /\ ShockAbsorberDeactivate
    /\ UNCHANGED <<engVars, regHistory, calls>>

---------------------------------------------------------------------------
(* The application's fetch calls and the platform's answers *)

\* fetch(url) by the application: whatever globalThis.fetch is at that
\* moment runs.  The wrapper runs the request hooks and calls
\* this.originalFetch, which is the platform's fetch whenever the wrapper is
\* installed, and waits for it.
fetchCall(url) ==
    /\ Event
    /\ calls' = Append(calls,
                  IF globalFetch = WrapperFetch
                  THEN Call(url, WrapperFetch, <<"requestHooks", "originalFetch">>,
                            executeRequestHooks(requestHooks, url, Obj(<<>>)))
                  ELSE Call(url, globalFetch, <<>>, <<>>))
    /\ UNCHANGED <<engVars, regVars, regHistory, icVars, hookVars>>

\* Other code rewrites the ambient fetch: globalThis.fetch = stub.
StubFetch == [kind |-> "stub"]
installStub(stub) ==
    /\ Event
    /\ globalFetch' = stub
    /\ UNCHANGED <<engVars, regVars, regHistory, isActive, originalFetch,
                   ambientVars, hookVars, calls>>

\* a wrapper that goes on after the original fetch only while its interceptor
\* is active, and hands the response on as it is otherwise
FetchResolvesIfActive(i, response) ==
    /\ calls[i].pc = "awaitFetch"
    /\ calls' = [calls EXCEPT ![i] =
                   IF calls[i].via = WrapperFetch /\ isActive
                   THEN AfterFetch(calls[i], response, rules, patterns)
                   ELSE Returns([calls[i] EXCEPT !.response = response],
                                "original", response, <<>>)]
    /\ UNCHANGED <<engVars, regVars, regHistory, icVars, hookVars, events>>

\* the platform's fetch resolves with a response: a direct caller gets it; the
\* wrapper goes on to its return or to await response.json()
FetchResolves(i, response) ==
    /\ calls[i].pc = "awaitFetch"
    /\ calls' = [calls EXCEPT ![i] =
                   IF calls[i].via = WrapperFetch
                   THEN AfterFetch(calls[i], response, rules, patterns)
                   ELSE Returns([calls[i] EXCEPT !.response = response],
                                "original", response, <<>>)]
    /\ UNCHANGED <<engVars, regVars, regHistory, icVars, hookVars, events>>

\* the platform's fetch rejects: so does the call, wrapped or not
FetchRejects(i) ==
    /\ calls[i].pc = "awaitFetch"
    /\ calls' = [calls EXCEPT ![i] = [@ EXCEPT !.pc = "done", !.result = Rejected]]
    /\ UNCHANGED <<engVars, regVars, regHistory, icVars, hookVars, events>>

\* a wrapper that keeps the response in a field of the interceptor, which
\* every call overwrites, and not in a local of the call: the payload parsed
\* is that of the response that arrived last
JsonSettlesShared(i) ==
    LET arrived == {j \in 1..Len(calls) : calls[j].response # NoResponse
                                          /\ calls[j].via = WrapperFetch
                                          /\ calls[j].pc # "awaitFetch"
                                          /\ calls[j].response.ok}
        last == CHOOSE j \in arrived : \A k \in arrived : k <= j
        settled == AfterJson([calls[i] EXCEPT !.response = calls[last].response],
                             responseHooks, absorbHooks)
    IN  /\ calls[i].pc = "awaitJson"
        /\ calls' = [calls EXCEPT ![i] = [settled EXCEPT !.response = calls[i].response]]
        /\ UNCHANGED <<engVars, regVars, regHistory, icVars, hookVars, events>>

\* response.json() settles and the wrapper runs to its return
JsonSettles(i) ==
    /\ calls[i].pc = "awaitJson"
    /\ calls' = [calls EXCEPT ![i] = AfterJson(calls[i], responseHooks, absorbHooks)]
    /\ UNCHANGED <<engVars, regVars, regHistory, icVars, hookVars, events>>

\* The patterns, rules, plugins, URLs and responses of the model.
MapUser == <<Entry("name", PathIns(<<"user_name">>)),
             Entry("email", PathIns(<<"user_email">>))>>
MapName == <<Entry("name", PathIns(<<"user_name">>))>>
MapTitles == <<Entry("titles", PathIns(<<"posts", ".", "*", ".", "title">>))>>
SetupPatterns == {PatLiteral, PatWild}
SetupArgs ==
    { MappingArg(MapUser),
      MappingArg(MapTitles),
      RuleArg(Rule(MapUser, "isV2", MapName)),
      RuleArg(Rule(MapUser, "isV2", NoMapping)) }

PluginLogger == Plugin("logger", <<OnRequest("logRequest"), OnResponse("logResponse"),
                                   OnAbsorb("logAbsorb")>>)
PluginShaper == Plugin("shaper", <<OnResponse("versionResponse"),
                                   OnAbsorb("stepAbsorb")>>)
PluginFaulty == Plugin("faulty", <<OnRequest("errorRequest"), OnResponse("errorResponse"),
                                   OnAbsorb("errorAbsorb")>>)
PluginSet == {PluginLogger, PluginShaper, PluginFaulty}

FetchUrls == {<<"/api", "/", "user">>, <<"/api", "/", "users">>}

UserV2 == Obj(<<Prop("user_name", Str("Park")),
                Prop("user_email", Str("park@example.com")),
                Prop("version", Str("v2"))>>)
PostsDraft == Obj(<<Prop("posts", Arr(<<Obj(<<Prop("title", Str("A"))>>),
                                        Obj(<<>>)>>))>>)
NotFound == Obj(<<Prop("error", Str("Not found"))>>)
ResponseSet ==
    { Response(200, JsonType, JsonText(UserKim)),
      Response(200, JsonType, JsonText(UserNoEmail)),
      Response(200, JsonTypeCharset, JsonText(UserV2)),
      Response(200, JsonType, JsonText(PostsDraft)),
      Response(200, JsonType, MalformedText),
      Response(200, HtmlType, MalformedText),
      Response(200, NoHeader, JsonText(UserKim)),
      Response(404, JsonType, JsonText(NotFound)) }

\* Inputs for the failures of the steps after the response: a plugin whose
\* absorb hook returns nothing, and a Response the platform fetch has handed
\* out before and whose body was read then (a stub that resolves every call
\* with one Response object does this).
PluginSilent == Plugin("silent", <<OnAbsorb("forgetAbsorb")>>)
FailureArgs ==
    { MappingArg(MapUser),
      RuleArg(Rule(MapUser, "isV2", NoMapping)) }
FailurePlugins == {PluginSilent, PluginFaulty}
FailureUrls == {<<"/api", "/", "user">>}
FailureResponses ==
    { Response(200, JsonType, JsonText(UserKim)),
      Response(200, JsonType, JsonText(Null)),
      Response(200, JsonType, MalformedText),
      Response(200, JsonType, UsedBody) }

Init == RegistryNew /\ EngineIdle /\ FacadeNew

Next ==
    \/ \E urlPattern \in SetupPatterns, arg \in SetupArgs : setupCushion(urlPattern, arg)
    \/ \E urlPattern \in SetupPatterns : removeCushionApi(urlPattern)
    \/ \E plugin \in PluginSet : use(plugin)
    \/ \E plugin \in PluginSet : removePlugin(plugin.name)
    \/ activate
    \/ deactivate
    \/ reset
    \/ \E url \in FetchUrls : fetchCall(url)
    \/ \E i \in 1..Len(calls), response \in ResponseSet : FetchResolves(i, response)
    \/ \E i \in 1..Len(calls) : FetchRejects(i)
    \/ \E i \in 1..Len(calls) : JsonSettles(i)

Spec == Init /\ [][Next]_vars

\* the same program over the inputs of the failing steps
NextFailures ==
    \/ \E arg \in FailureArgs : setupCushion(PatLiteral, arg)
    \/ removeCushionApi(PatLiteral)
    \/ \E plugin \in FailurePlugins : use(plugin)
    \/ \E plugin \in FailurePlugins : removePlugin(plugin.name)
    \/ activate
    \/ deactivate
    \/ reset
    \/ \E url \in FailureUrls : fetchCall(url)
    \/ \E i \in 1..Len(calls), response \in FailureResponses : FetchResolves(i, response)
    \/ \E i \in 1..Len(calls) : FetchRejects(i)
    \/ \E i \in 1..Len(calls) : JsonSettles(i)

SpecFailures == Init /\ [][NextFailures]_vars

\* the same program over the rules with and without predicate and fallback,
\* and payloads the predicate holds of, fails of and throws on
RuleArgs ==
    { RuleArg(Rule(MapUser, "isV2", MapName)),
      RuleArg(Rule(MapUser, "isV2", NoMapping)),
      RuleArg(Rule(MapUser, "none", MapName)) }
RulePlugins == {PluginShaper, PluginFaulty}
RuleUrls == {<<"/api", "/", "user">>}
RuleResponses ==
    { Response(200, JsonType, JsonText(UserKim)),
      Response(200, JsonTypeCharset, JsonText(UserV2)),
      Response(200, JsonType, JsonText(Null)) }

NextRules ==
    \/ \E arg \in RuleArgs : setupCushion(PatLiteral, arg)
    \/ removeCushionApi(PatLiteral)
    \/ \E plugin \in RulePlugins : use(plugin)
    \/ \E plugin \in RulePlugins : removePlugin(plugin.name)
    \/ activate
    \/ deactivate
    \/ reset
    \/ \E url \in RuleUrls : fetchCall(url)
    \/ \E i \in 1..Len(calls), response \in RuleResponses : FetchResolves(i, response)
    \/ \E i \in 1..Len(calls) : FetchRejects(i)
    \/ \E i \in 1..Len(calls) : JsonSettles(i)

SpecRules == Init /\ [][NextRules]_vars

\* The shorthand of setupCushion: bare mappings, one of them with the stable
\* key "mapping", and payloads with and without the fields they name.
MapKeyed == <<Entry("mapping", PathIns(<<"id">>)),
              Entry("name", PathIns(<<"user_name">>))>>
UserId == Obj(<<Prop("id", Num(7)), Prop("user_name", Str("Kim"))>>)
ShorthandArgs == {MappingArg(MapUser), MappingArg(MapKeyed)}
ShorthandUrls == {<<"/api", "/", "user">>}
ShorthandResponses ==
    { Response(200, JsonType, JsonText(UserId)),
      Response(200, JsonType, JsonText(UserNoEmail)) }

NextShorthand ==
    \/ \E arg \in ShorthandArgs : setupCushion(PatLiteral, arg)
    \/ removeCushionApi(PatLiteral)
    \/ \E url \in ShorthandUrls : fetchCall(url)
    \/ \E i \in 1..Len(calls), response \in ShorthandResponses :
           FetchResolves(i, response)
    \/ \E i \in 1..Len(calls) : JsonSettles(i)

SpecShorthand == Init /\ [][NextShorthand]_vars

\* Calls in flight: an application that has set up one rule and installed
\* one plugin issues calls, and registers, removes and resets while calls
\* are suspended in the original fetch or in the parsing of the body.
InFlightRule == CushionRuleOf(RuleArg(Rule(MapUser, "isV2", MapName)))
InitInFlight ==
    /\ EngineIdle
    /\ rules = RulesSet(<<>>, PatLiteral, InFlightRule)
    /\ patterns = PatternsAfterSet(<<>>, PatLiteral, InFlightRule)
    /\ regLast = [op |-> "new", pattern |-> <<>>, rule |-> NoRule,
                  rules |-> <<>>, patterns |-> <<>>]
    /\ regOps = 0
    /\ isActive = TRUE
    /\ originalFetch = NativeFetch
    /\ globalFetch = WrapperFetch
    /\ AmbientNew
    /\ plugins = <<PluginLogger>>
    /\ absorbHooks = Installed(PluginLogger, "absorb")
    /\ requestHooks = Installed(PluginLogger, "request")
    /\ responseHooks = Installed(PluginLogger, "response")
    /\ calls = <<>>
    /\ events = 0

InFlightArgs == {MappingArg(MapName)}
InFlightUrls == {<<"/api", "/", "user">>, <<"/api", "/", "users">>}
InFlightResponses ==
    { Response(200, JsonType, JsonText(UserKim)),
      Response(200, JsonType, JsonText(UserV2)),
      Response(200, JsonType, MalformedText) }

NextInFlight ==
    \/ \E arg \in InFlightArgs : setupCushion(PatLiteral, arg)
    \/ removeCushionApi(PatLiteral)
    \/ deactivate
    \/ reset
    \/ \E url \in InFlightUrls : fetchCall(url)
    \/ \E i \in 1..Len(calls), response \in InFlightResponses :
           FetchResolves(i, response)
    \/ \E i \in 1..Len(calls) : FetchRejects(i)
    \/ \E i \in 1..Len(calls) : JsonSettles(i)

SpecInFlight == InitInFlight /\ [][NextInFlight]_vars

\* The plugins of an application that has set up one rule: plugins are
\* installed, installed again under a name in use, and removed, while calls
\* go through the wrapper.  Two of the plugins have the same name and install
\* different hooks.
PluginLoggerTwo == Plugin("logger", <<OnAbsorb("stepAbsorb")>>)
PluginsRule == CushionRuleOf(MappingArg(MapUser))
InitPlugins ==
    /\ EngineIdle
    /\ rules = RulesSet(<<>>, PatLiteral, PluginsRule)
    /\ patterns = PatternsAfterSet(<<>>, PatLiteral, PluginsRule)
    /\ regLast = [op |-> "new", pattern |-> <<>>, rule |-> NoRule,
                  rules |-> <<>>, patterns |-> <<>>]
    /\ regOps = 0
    /\ isActive = TRUE
    /\ originalFetch = NativeFetch
    /\ globalFetch = WrapperFetch
    /\ AmbientNew
    /\ plugins = <<>>
    /\ absorbHooks = <<>>
    /\ requestHooks = <<>>
    /\ responseHooks = <<>>
    /\ calls = <<>>
    /\ events = 0

PluginsPlugins == {PluginLogger, PluginLoggerTwo, PluginFaulty}
PluginsUrls == {<<"/api", "/", "user">>}
PluginsResponses == {Response(200, JsonType, JsonText(UserKim))}

NextPlugins ==
    \/ \E plugin \in PluginsPlugins : use(plugin)
    \/ \E plugin \in PluginsPlugins : removePlugin(plugin.name)
    \/ reset
    \/ \E url \in PluginsUrls : fetchCall(url)
    \/ \E i \in 1..Len(calls), response \in PluginsResponses : FetchResolves(i, response)
    \/ \E i \in 1..Len(calls) : JsonSettles(i)

SpecPlugins == InitPlugins /\ [][NextPlugins]_vars

\* The hook bus on its own: a PluginEcosystem on which hooks of one kind
\* have been registered by onAbsorb, onResponse or onRequest, and one
\* execute call on it, as the unit tests make them.
MaxHooks == 3
SeqsUpTo(S, n) == UNION {[1..k -> S] : k \in 0..n}
BusAbsorbHooks == {"stepAbsorb", "step2Absorb", "step3Absorb", "errorAbsorb",
                   "forgetAbsorb"}
BusResponseHooks == {"versionResponse", "version1Response", "errorResponse"}
BusRequestHooks == {"logRequest", "errorRequest"}
BusData == {Obj(<<>>), Obj(<<Prop("original", Bool(TRUE))>>)}
BusUrl == <<"/api", "/", "user">>
BusContext == [url |-> BusUrl]

InitHooks ==
    /\ RegistryNew
    /\ engData \in BusData
    /\ engMapping = <<>>
    /\ engResult = Undef
    /\ engPc = "idle"
    /\ isActive = FALSE
    /\ originalFetch = NativeFetch
    /\ globalFetch = NativeFetch
    /\ AmbientNew
    /\ plugins = <<>>
    /\ \/ /\ absorbHooks \in SeqsUpTo(BusAbsorbHooks, MaxHooks)
          /\ responseHooks = <<>> /\ requestHooks = <<>>
       \/ /\ responseHooks \in SeqsUpTo(BusResponseHooks, MaxHooks)
          /\ absorbHooks = <<>> /\ requestHooks = <<>>
       \/ /\ requestHooks \in SeqsUpTo(BusRequestHooks, MaxHooks)
          /\ absorbHooks = <<>> /\ responseHooks = <<>>
    /\ calls = <<>>
    /\ events = 0

\* one call of the bus: what was called, whether it threw, what it returned
\* and the calls it made of the hooks
BusCall(op, reduced) ==
    [op |-> op, outcome |-> [thrown |-> reduced.thrown, val |-> reduced.val],
     made |-> reduced.made]

\* ecosystem.executeAbsorbHooks(engData, {}, {url})
executeAbsorbHooksCall ==
    /\ calls = <<>>
    /\ calls' = <<BusCall("executeAbsorbHooks",
                          absorbHooksReduce(absorbHooks, engData, engMapping,
                                            BusContext))>>
    /\ UNCHANGED <<engVars, regVars, regHistory, icVars, hookVars, events>>

\* ecosystem.executeResponseHooks(url, engData)
executeResponseHooksCall ==
    /\ calls = <<>>
    /\ calls' = <<BusCall("executeResponseHooks",
                          responseHooksReduce(responseHooks, BusUrl, engData))>>
    /\ UNCHANGED <<engVars, regVars, regHistory, icVars, hookVars, events>>

\* ecosystem.executeRequestHooks(url, {})
executeRequestHooksCall ==
    /\ calls = <<>>
    /\ calls' = <<BusCall("executeRequestHooks",
                          Reduced(FALSE, Undef,
                                  executeRequestHooks(requestHooks, BusUrl, Obj(<<>>))))>>
    /\ UNCHANGED <<engVars, regVars, regHistory, icVars, hookVars, events>>

NextHooks ==
    \/ executeAbsorbHooksCall
    \/ executeResponseHooksCall
    \/ executeRequestHooksCall

SpecHooks == InitHooks /\ [][NextHooks]_vars

\* The lifecycle of the interceptor among other code that rewrites the
\* ambient fetch.  It starts where
\*   use(logger); setupCushion("/api/user", {name: "user_name",
\*   email: "user_email"}); deactivate()
\* has left the global instance: one rule, the hooks of one plugin, inactive.
LifecycleRule == CushionRuleOf(MappingArg(MapUser))
InitLifecycle ==
    /\ EngineIdle
    /\ rules = RulesSet(<<>>, PatLiteral, LifecycleRule)
    /\ patterns = PatternsAfterSet(<<>>, PatLiteral, LifecycleRule)
    /\ regLast = [op |-> "new", pattern |-> <<>>, rule |-> NoRule,
                  rules |-> <<>>, patterns |-> <<>>]
    /\ regOps = 0
    /\ isActive = FALSE
    /\ originalFetch = NativeFetch
    /\ globalFetch = NativeFetch
    /\ AmbientNew
    /\ plugins = <<PluginLogger>>
    /\ absorbHooks = Installed(PluginLogger, "absorb")
    /\ requestHooks = Installed(PluginLogger, "request")
    /\ responseHooks = Installed(PluginLogger, "response")
    /\ calls = <<>>
    /\ events = 0

LifecycleArgs == {MappingArg(MapName)}
LifecyclePlugins == {PluginShaper}
LifecycleStubs == {StubFetch}
LifecycleUrls == {<<"/api", "/", "user">>}
LifecycleResponses == {Response(200, JsonType, JsonText(UserKim))}

NextLifecycle ==
    \/ \E arg \in LifecycleArgs : setupCushion(PatLiteral, arg)
    \/ removeCushionApi(PatLiteral)
    \/ \E plugin \in LifecyclePlugins : use(plugin)
    \/ \E plugin \in LifecyclePlugins : removePlugin(plugin.name)
    \/ activate
    \/ deactivate
    \/ reset
    \/ \E stub \in LifecycleStubs : installStub(stub)
    \/ \E url \in LifecycleUrls : fetchCall(url)
    \/ \E i \in 1..Len(calls), response \in LifecycleResponses : FetchResolves(i, response)
    \/ \E i \in 1..Len(calls) : FetchRejects(i)
    \/ \E i \in 1..Len(calls) : JsonSettles(i)

SpecLifecycle == InitLifecycle /\ [][NextLifecycle]_vars

---------------------------------------------------------------------------
(* Two interceptors and other code on the one ambient fetch *)

\* The second ShockAbsorber is new ShockAbsorber(new CushionManager(),
\* new AbsorptionEngine()): it has no rules and no plugin ecosystem, so its
\* wrapper runs no hooks, awaits this.originalFetch, finds no rule and returns
\* the response it got.
\*
\* The wrapper the second ShockAbsorber installs.  Every activate() makes a
\* new arrow function, and each of them reads this.originalFetch and
\* this.isActive of its own ShockAbsorber when it is called, so the wrappers
\* of one ShockAbsorber behave alike: WrapperFetch stands for any wrapper of
\* the facade's ShockAbsorber, SecondWrapper for any wrapper of the second.
SecondWrapper == [kind |-> "wrapper", of |-> "second"]

\* activate() of the second ShockAbsorber
secondActivate ==
    /\ IF second.isActive THEN UNCHANGED <<second, globalFetch>>
       ELSE /\ second' = [isActive |-> TRUE, originalFetch |-> globalFetch]
            /\ globalFetch' = SecondWrapper
    /\ UNCHANGED <<engVars, regVars, regHistory, isActive, originalFetch,
                   savedFetch, hookVars, callVars>>

\* deactivate() of the second ShockAbsorber
secondDeactivate ==
    /\ IF ~second.isActive THEN UNCHANGED <<second, globalFetch>>
       ELSE /\ globalFetch' = second.originalFetch
            /\ second' = [second EXCEPT !.isActive = FALSE]
    /\ UNCHANGED <<engVars, regVars, regHistory, isActive, originalFetch,
                   savedFetch, hookVars, callVars>>

\* Other code keeps the ambient fetch: const saved = globalThis.fetch.
saveFetch ==
    /\ savedFetch' = globalFetch
    /\ UNCHANGED <<engVars, regVars, regHistory, isActive, originalFetch,
                   globalFetch, second, hookVars, callVars>>

\* Other code puts back what it kept: globalThis.fetch = saved.
installSaved ==
    /\ savedFetch # NoFetch
    /\ globalFetch' = savedFetch
    /\ UNCHANGED <<engVars, regVars, regHistory, isActive, originalFetch,
                   ambientVars, hookVars, callVars>>

\* The fetch a fetch hands the request to when it is called: a wrapper calls
\* this.originalFetch of its ShockAbsorber, read at the time of the call; the
\* fetch of the platform and a stub call no other fetch.
Wrappers == {WrapperFetch, SecondWrapper}
IsWrapper(fetch) == fetch \in Wrappers
DelegateOf(fetch) ==
    IF fetch = WrapperFetch THEN originalFetch ELSE second.originalFetch

\* a call of fetch comes to a fetch that is no wrapper within n delegations
RECURSIVE ReachesNonWrapper(_, _)
ReachesNonWrapper(fetch, n) ==
    IF ~IsWrapper(fetch) THEN TRUE
    ELSE IF n = 0 THEN FALSE
    ELSE ReachesNonWrapper(DelegateOf(fetch), n - 1)

\* the fetches a call of fetch passes one after the other, from the one
\* called to the first that is no wrapper, or as far as n delegations go
RECURSIVE Delegations(_, _)
Delegations(fetch, n) ==
    IF ~IsWrapper(fetch) \/ n = 0 THEN <<fetch>>
    ELSE <<fetch>> \o Delegations(DelegateOf(fetch), n - 1)

\* fetch(url) by the application: globalThis.fetch runs, and every wrapper
\* calls its this.originalFetch before it awaits anything, so the wrappers
\* are passed at once.  Where a wrapper is passed again the calls never come
\* to an end: the stack overflows, the RangeError is thrown in an async
\* function and every wrapper's promise rejects.  The wrapper of the facade's
\* ShockAbsorber runs the request hooks on the way; the call then waits for
\* the fetch that is no wrapper.
ambientFetchCall(url) ==
    /\ Event
    /\ LET passed == Delegations(globalFetch, Cardinality(Wrappers))
           last == passed[Len(passed)]
           wrapped == \E k \in 1..Len(passed) : passed[k] = WrapperFetch
           c == IF wrapped
                THEN Call(url, WrapperFetch, <<"requestHooks", "originalFetch">>,
                          executeRequestHooks(requestHooks, url, Obj(<<>>)))
                ELSE Call(url, last, <<>>, <<>>)
       IN  calls' = Append(calls, IF IsWrapper(last) THEN Throws(c, <<>>) ELSE c)
    /\ UNCHANGED <<engVars, regVars, regHistory, icVars, hookVars>>

AmbientUrls == {<<"/api", "/", "user">>}
AmbientResponses == {Response(200, JsonType, JsonText(UserKim))}

\* two ShockAbsorbers of one application, activated and deactivated in any
\* order
NextInstances ==
    \/ activate
    \/ deactivate
    \/ secondActivate
    \/ secondDeactivate
    \/ \E url \in AmbientUrls : ambientFetchCall(url)
    \/ \E i \in 1..Len(calls), response \in AmbientResponses : FetchResolves(i, response)

SpecInstances == Init /\ [][NextInstances]_vars

\* one ShockAbsorber among other code that keeps the ambient fetch and puts
\* it back later
NextSavedFetch ==
    \/ activate
    \/ deactivate
    \/ saveFetch
    \/ installSaved
    \/ \E url \in AmbientUrls : ambientFetchCall(url)
    \/ \E i \in 1..Len(calls), response \in AmbientResponses : FetchResolves(i, response)

SpecSavedFetch == Init /\ [][NextSavedFetch]_vars

---------------------------------------------------------------------------
(* The interceptor: claims *)

RequestHookNames == {"logRequest", "errorRequest"}

\* only request hooks were invoked for the call
OnlyRequestHooks(c) ==
    \A k \in 1..Len(c.invoked) : c.invoked[k] \in RequestHookNames

\* the call went through the wrapper, its response was ok and JSON with a
\* body that parses, the rule found for its URL is a bare mapping as
\* setupCushion(p, M) registers it, registered under that very URL, and no
\* plugin hook touched the data
PlainJsonCall(c) ==
    /\ c.via = WrapperFetch
    /\ c.pc = "done"
    /\ c.response # NoResponse
    /\ c.response.ok
    /\ ~NotJsonType(c.response.contentType)
    /\ c.response.body.text = "json"
    /\ c.cushion # NoRule
    /\ c.cushion.condition = "none"
    /\ c.cushion.fallback = NoMapping
    /\ RulesHas(rules, c.url)
    /\ rules[RulesIndex(rules, c.url)].rule = c.cushion
    /\ OnlyRequestHooks(c)

\* the properties of an object that hold a value
DefinedKeys(o) == {k \in KeysOf(o) : OwnValue(o, k) # Undef}

\* Equality of values as the tests of the repository take it (toEqual): a
\* property that holds undefined counts as absent and the order of the
\* properties does not matter; everything else must agree.
RECURSIVE ToEqual(_, _)
ToEqual(a, b) ==
    IF a.t # b.t THEN FALSE
    ELSE IF a.t = "object"
    THEN /\ DefinedKeys(a) = DefinedKeys(b)
         /\ \A k \in DefinedKeys(a) : ToEqual(OwnValue(a, k), OwnValue(b, k))
    ELSE IF a.t = "array"
    THEN /\ Len(a.items) = Len(b.items)
         /\ \A i \in 1..Len(a.items) : ToEqual(a.items[i], b.items[i])
    ELSE a = b

\* C1, as stated: after setupCushion(p, M) a fetch of p whose original
\* response is ok and JSON gives the caller a response whose parsed body
\* equals absorb(payload, M).
C1_ParsedBodyIsAbsorbed ==
    \A i \in 1..Len(calls) :
        PlainJsonCall(calls[i]) =>
            /\ calls[i].result.kind = "response"
            /\ ~ResponseJson(calls[i].result.response.body).thrown
            /\ ToEqual(ResponseJson(calls[i].result.response.body).val,
                       absorb(calls[i].response.body.value,
                              calls[i].cushion.mapping).val)

\* C10: a response with ok = false comes back from the wrapper as the very
\* object the original fetch gave, unaltered, and after the request hooks and
\* the original fetch nothing else ran: no rule was looked up or kept, the
\* body was not read, no response hook, predicate, mapping or absorb hook ran.
C10_NotOkUntouched ==
    \A i \in 1..Len(calls) :
        LET c == calls[i]
        IN  (c.via = WrapperFetch /\ c.response # NoResponse /\ ~c.response.ok) =>
                /\ c.pc = "done"
                /\ c.result = [kind |-> "response", object |-> "original",
                               response |-> c.response]
                /\ c.trace = <<"requestHooks", "originalFetch">>
                /\ c.cushion = NoRule
                /\ c.applied = NoMapping
                /\ OnlyRequestHooks(c)

\* a 404 came back through the wrapper while a rule matched the URL and
\* response and absorb hooks were registered
C10_Witness ==
    \E i \in 1..Len(calls) :
        /\ calls[i].via = WrapperFetch
        /\ calls[i].pc = "done"
        /\ calls[i].response # NoResponse
        /\ calls[i].response.status = 404
        /\ getCushion(rules, patterns, calls[i].url) # NoRule
        /\ responseHooks # <<>>
        /\ absorbHooks # <<>>

\* the trace holds the step
Ran(c, step) == \E k \in 1..Len(c.trace) : c.trace[k] = step

\* the wrapper got an ok response for the call and looked its rule up
LookedUp(c) ==
    /\ c.via = WrapperFetch
    /\ c.response # NoResponse
    /\ c.response.ok
    /\ Ran(c, "getCushion")

\* the content types of the model that are not JSON: text/html, and none
NonJsonTypes == {HtmlType, NoHeader}

\* C11: when no rule matches the URL, or one matches and the content type is
\* not JSON, the wrapper returns the very response the original fetch gave;
\* its body was not read and no response hook, predicate, mapping or absorb
\* hook ran.
C11_PassThrough ==
    \A i \in 1..Len(calls) :
        LET c == calls[i]
        IN  (LookedUp(c) /\ (c.cushion = NoRule \/ c.response.contentType \in NonJsonTypes)) =>
                /\ c.pc = "done"
                /\ c.result = [kind |-> "response", object |-> "original",
                               response |-> c.response]
                /\ c.trace = <<"requestHooks", "originalFetch", "getCushion">> \o
                             (IF c.cushion = NoRule THEN <<>>
                              ELSE <<"clone", "contentType">>)
                /\ c.applied = NoMapping
                /\ OnlyRequestHooks(c)

\* a text/html response came back through the wrapper for a URL a rule
\* matches, while response and absorb hooks were registered
C11_Witness ==
    \E i \in 1..Len(calls) :
        /\ LookedUp(calls[i])
        /\ calls[i].cushion # NoRule
        /\ calls[i].response.contentType = HtmlType
        /\ calls[i].pc = "done"
        /\ responseHooks # <<>>
        /\ absorbHooks # <<>>

ResponseHookNames == {"logResponse", "errorResponse", "versionResponse"}
AbsorbHookNames == {"logAbsorb", "errorAbsorb", "stepAbsorb"}

\* the hooks of the given names among those invoked for the call, in order
InvokedOf(c, names) == SelectSeq(c.invoked, LAMBDA h : h \in names)

\* the wrapper got an ok JSON response for the call, found a rule, read a
\* body that parses and ran to its return
ParsedCall(c) ==
    /\ LookedUp(c)
    /\ c.cushion # NoRule
    /\ c.response.contentType \notin NonJsonTypes
    /\ c.response.body.text = "json"
    /\ c.pc = "done"

\* the data the predicate and the mapping are given: the payload as the
\* response hooks that ran handed it on (the payload itself without them)
DataOf(c) ==
    executeResponseHooks(InvokedOf(c, ResponseHookNames), c.url, c.response.body.value)

\* data.version === "v2", for data that is an object
IsV2(data) ==
    /\ data.t = "object"
    /\ HasOwn(data, "version")
    /\ OwnValue(data, "version") = Str("v2")

\* data the predicate gives an answer for: reading .version of null or
\* undefined throws instead
Answers(data) == data.t \notin {"null", "undefined"}

\* C12: under a rule {mapping: M1, condition: c, fallback: M2} the transformed
\* result is absorb(data, M1) when c(data) is true and absorb(data, M2) when it
\* is false, and the absorb hooks are given the mapping that was applied.
C12_PredicateSelects ==
    \A i \in 1..Len(calls) :
        LET c == calls[i]
            chosen == IF IsV2(DataOf(c)) THEN c.cushion.mapping ELSE c.cushion.fallback
        IN  (ParsedCall(c) /\ c.cushion.condition = "isV2"
                           /\ c.cushion.fallback # NoMapping
                           /\ Answers(DataOf(c))) =>
                /\ c.result.kind = "response"
                /\ c.result.object = "new"
                /\ c.applied = chosen
                /\ c.absorbed = <<absorb(DataOf(c), chosen).val>>
                /\ c.hookMapping = chosen

\* a payload that is not v2 was mapped by the fallback of its rule, whose
\* mapping differs, and absorb hooks ran
C12_Witness ==
    \E i \in 1..Len(calls) :
        /\ ParsedCall(calls[i])
        /\ calls[i].cushion.condition = "isV2"
        /\ calls[i].cushion.fallback # NoMapping
        /\ calls[i].cushion.fallback # calls[i].cushion.mapping
        /\ Answers(DataOf(calls[i]))
        /\ ~IsV2(DataOf(calls[i]))
        /\ calls[i].applied = calls[i].cushion.fallback
        /\ InvokedOf(calls[i], AbsorbHookNames) # <<>>

\* C13: when the predicate of the rule is false for the data and the rule
\* has no fallback, the wrapper returns the clone of the original response,
\* untouched: the mapping engine is not applied and no absorb hook runs.
C13_NoFallbackPassesThrough ==
    \A i \in 1..Len(calls) :
        LET c == calls[i]
        IN  (ParsedCall(c) /\ c.cushion.condition = "isV2"
                           /\ c.cushion.fallback = NoMapping
                           /\ Answers(DataOf(c))
                           /\ ~IsV2(DataOf(c))) =>
                /\ c.result = [kind |-> "response", object |-> "clone",
                               response |-> c.response]
                /\ c.applied = NoMapping
                /\ c.absorbed = <<>>
                /\ InvokedOf(c, AbsorbHookNames) = <<>>
                /\ ~Ran(c, "absorb")
                /\ ~Ran(c, "absorbHooks")
                /\ ~Ran(c, "createCushionedResponse")

\* a payload that is not v2 came back under a rule with a predicate and no
\* fallback, while absorb hooks were registered
C13_Witness ==
    \E i \in 1..Len(calls) :
        /\ ParsedCall(calls[i])
        /\ calls[i].cushion.condition = "isV2"
        /\ calls[i].cushion.fallback = NoMapping
        /\ Answers(DataOf(calls[i]))
        /\ ~IsV2(DataOf(calls[i]))
        /\ Ran(calls[i], "condition")
        /\ absorbHooks # <<>>

\* C14: a rule without a predicate is applied with its primary mapping,
\* fallback or not; the fallback is applied only when a predicate is present
\* and false for the data.
C14_FallbackNeedsPredicate ==
    \A i \in 1..Len(calls) :
        LET c == calls[i]
        IN  ParsedCall(c) =>
                /\ c.cushion.condition = "none" =>
                       /\ c.applied = c.cushion.mapping
                       /\ c.hookMapping = c.cushion.mapping
                       /\ c.absorbed = <<absorb(DataOf(c), c.cushion.mapping).val>>
                       /\ c.result.kind = "response"
                       /\ c.result.object = "new"
                       /\ ~Ran(c, "condition")
                /\ (c.applied # c.cushion.mapping /\ c.applied # NoMapping) =>
                       /\ c.applied = c.cushion.fallback
                       /\ c.cushion.condition = "isV2"
                       /\ Answers(DataOf(c))
                       /\ ~IsV2(DataOf(c))

\* a rule with a fallback and no predicate was applied with its mapping, to
\* data the model's predicate would have failed
C14_Witness ==
    \E i \in 1..Len(calls) :
        /\ ParsedCall(calls[i])
        /\ calls[i].cushion.condition = "none"
        /\ calls[i].cushion.fallback # NoMapping
        /\ calls[i].cushion.fallback # calls[i].cushion.mapping
        /\ Answers(DataOf(calls[i]))
        /\ ~IsV2(DataOf(calls[i]))
        /\ calls[i].applied = calls[i].cushion.mapping

\* a call that went through the wrapper and came back with a response, for an
\* ok response with a JSON content type and a rule found for the URL
JsonTypes == {JsonType, JsonTypeCharset}
MatchedJsonCall(c) ==
    /\ c.via = WrapperFetch
    /\ c.pc = "done"
    /\ c.response # NoResponse
    /\ c.response.ok
    /\ c.cushion # NoRule
    /\ c.response.contentType \in JsonTypes

\* C15: for an ok JSON response with a rule, the response the wrapper returns
\* has the original bytes or the serialized absorbed data as its body, never
\* an empty one; when parsing or the predicate fails it is the clone.
C15_BodyIsOriginalOrSerialized ==
    \A i \in 1..Len(calls) :
        LET c == calls[i]
        IN  (MatchedJsonCall(c) /\ c.result.kind = "response") =>
                /\ \/ c.result.response = c.response
                   \/ /\ c.result.object = "new"
                      /\ c.absorbed # <<>>
                      /\ c.result.response.body.text = "json"
                /\ c.result.response.body # NoBody
                /\ (c.response.body.text # "json" \/ c.absorbed = <<>>) =>
                       c.result = [kind |-> "response", object |-> "clone",
                                   response |-> c.response]

\* C16: a call through the wrapper rejects only if the original fetch did.
C16_RejectsOnlyWithOriginal ==
    \A i \in 1..Len(calls) :
        LET c == calls[i]
        IN  (c.via = WrapperFetch /\ c.result = Rejected) =>
                (c.response = NoResponse /\ ~Ran(c, "getCushion"))


---------------------------------------------------------------------------
(* The lifecycle: claims *)

\* a step of activate(), called directly or by setupCushion
ActivateCalled ==
    \/ activate
    \/ \E arg \in LifecycleArgs : setupCushion(PatLiteral, arg)

\* C17: activate() from the inactive state captures the fetch ambient at that
\* moment and installs the wrapper; activate() while active changes neither
\* the ambient fetch nor the captured original, so the captured original is
\* never the wrapper.
C17_ActivateIdempotent ==
    [][ /\ ActivateCalled =>
               IF isActive
               THEN /\ globalFetch' = globalFetch
                    /\ originalFetch' = originalFetch
                    /\ isActive'
               ELSE /\ originalFetch' = globalFetch
                    /\ globalFetch' = WrapperFetch
                    /\ isActive'
        /\ isActive' => originalFetch' # WrapperFetch ]_vars

\* the interceptor is active over a stub other code had installed: it has
\* captured the stub, not the fetch of the platform
C17_Witness ==
    /\ isActive
    /\ globalFetch = WrapperFetch
    /\ originalFetch = StubFetch

\* C18: deactivate() while active sets the ambient fetch to the reference
\* captured at the most recent activation and makes the interceptor inactive;
\* deactivate() while inactive changes nothing.
C18_DeactivateRestores ==
    [][ deactivate =>
            IF isActive
            THEN /\ globalFetch' = originalFetch
                 /\ originalFetch' = originalFetch
                 /\ ~isActive'
            ELSE /\ globalFetch' = globalFetch
                 /\ originalFetch' = originalFetch
                 /\ ~isActive' ]_vars

\* activated over a stub and deactivated since, with the rule and the hooks
\* still there (no reset): the ambient fetch is the stub again
C18_Witness ==
    /\ ~isActive
    /\ originalFetch = StubFetch
    /\ globalFetch = StubFetch
    /\ rules # <<>>
    /\ requestHooks # <<>>

\* a call the wrapper had no part in
Untransformed(c) ==
    /\ c.trace = <<>>
    /\ c.invoked = <<>>
    /\ c.cushion = NoRule
    /\ c.applied = NoMapping
    /\ c.pc = "done" =>
           \/ c.result = Rejected
           \/ c.result = [kind |-> "response", object |-> "original",
                          response |-> c.response]

\* C19: deactivate() changes only the activation state and the ambient fetch:
\* rules, hooks, plugins and calls are left as they are; a call issued while
\* inactive does not go through the wrapper and is not transformed; a call
\* through the wrapper is given the rule the registry holds when its response
\* arrives and is transformed by it, whatever activations went before.
C19_DeactivateFrame ==
    [][ /\ deactivate =>
               /\ rules' = rules /\ patterns' = patterns
               /\ plugins' = plugins
               /\ absorbHooks' = absorbHooks
               /\ requestHooks' = requestHooks
               /\ responseHooks' = responseHooks
               /\ calls' = calls
               /\ originalFetch' = originalFetch
               /\ ~isActive'
        /\ (Len(calls') = Len(calls) + 1 /\ ~isActive) =>
               calls'[Len(calls')].via # WrapperFetch
        /\ \A i \in 1..Len(calls') :
               calls'[i].via # WrapperFetch => Untransformed(calls'[i])
        /\ \A i \in 1..Len(calls) :
               (/\ calls[i].via = WrapperFetch
                /\ calls[i].pc = "awaitFetch"
                /\ calls'[i].pc # "awaitFetch"
                /\ calls'[i].response # NoResponse) =>
                   calls'[i].cushion = getCushion(rules, patterns, calls[i].url)
        /\ \A i \in 1..Len(calls') :
               ParsedCall(calls'[i]) =>
                   /\ calls'[i].applied = calls'[i].cushion.mapping
                   /\ calls'[i].result.kind = "response"
                   /\ calls'[i].result.object = "new" ]_vars

\* a call issued while inactive came back as it was, and a later call, after
\* activate(), was transformed by the rule registered before: the registry
\* is what it was at the start
C19_Witness ==
    /\ Len(calls) = 2
    /\ calls[1].via = NativeFetch
    /\ calls[1].pc = "done"
    /\ calls[1].result = [kind |-> "response", object |-> "original",
                          response |-> calls[1].response]
    /\ calls[2].via = WrapperFetch
    /\ ParsedCall(calls[2])
    /\ calls[2].cushion = LifecycleRule
    /\ calls[2].applied = LifecycleRule.mapping
    /\ calls[2].result.object = "new"
    /\ rules = RulesSet(<<>>, PatLiteral, LifecycleRule)
    /\ isActive

\* what reset() leaves of the registry and the plugins: a step to a state
\* where getCushion gives no rule for any URL and nothing is installed
ResetCleared ==
    /\ \A url \in AllUrls : getCushion(rules', patterns', url) = NoRule
    /\ plugins' = <<>>
    /\ absorbHooks' = <<>>
    /\ requestHooks' = <<>>
    /\ responseHooks' = <<>>
    /\ ~isActive'

\* a call whose response arrives while no rule is registered is returned as
\* it is
NoRuleNoChange ==
    \A i \in 1..Len(calls) :
        (/\ rules = <<>> /\ patterns = <<>>
         /\ calls[i].pc = "awaitFetch"
         /\ calls'[i].pc # "awaitFetch"
         /\ calls'[i].response # NoResponse) =>
            calls'[i].result = [kind |-> "response", object |-> "original",
                                response |-> calls'[i].response]

\* C20 as stated: after reset() the registry, the plugins and the hooks are
\* empty, the interceptor is inactive and the ambient fetch is the captured
\* reference.
C20_ResetRestoresCaptured ==
    [][ reset => (ResetCleared /\ globalFetch' = originalFetch') ]_vars

\* C20, amended: after reset() the registry, the plugins and the hooks are
\* empty and the interceptor is inactive; the ambient fetch is the captured
\* reference when reset() was called while active and is left as it was
\* when called while inactive; a response that arrives while no rule is
\* registered is returned untransformed.
C20_ResetClears ==
    [][ /\ reset =>
               /\ ResetCleared
               /\ originalFetch' = originalFetch
               /\ globalFetch' = IF isActive THEN originalFetch ELSE globalFetch
        /\ NoRuleNoChange ]_vars

\* reset() was called while active over a stub: nothing is registered or
\* installed and the ambient fetch is the stub again
C20_Witness ==
    /\ ~isActive
    /\ rules = <<>> /\ patterns = <<>>
    /\ plugins = <<>>
    /\ absorbHooks = <<>> /\ requestHooks = <<>> /\ responseHooks = <<>>
    /\ originalFetch = StubFetch
    /\ globalFetch = StubFetch


---------------------------------------------------------------------------
(* The hook bus: claims *)

\* the hooks of the model that throw
ThrowingHooks == {"errorAbsorb", "errorResponse", "errorRequest"}
NoneThrows(hooks) == \A k \in 1..Len(hooks) : hooks[k] \notin ThrowingHooks
SomeThrows(hooks) == \E k \in 1..Len(hooks) : hooks[k] \in ThrowingHooks
WithoutThrowing(hooks) == SelectSeq(hooks, LAMBDA h : h \notin ThrowingHooks)

\* the value the k first hooks of a chain in which none throws have made of
\* the data: what the k-th hook returned, the data itself for k = 0
RECURSIVE AbsorbAfter(_, _, _)
AbsorbAfter(hooks, data, k) ==
    IF k = 0 THEN data
    ELSE AbsorbHookApply(hooks[k], AbsorbAfter(hooks, data, k - 1), engMapping,
                         BusContext).val

RECURSIVE ResponseAfter(_, _, _)
ResponseAfter(hooks, data, k) ==
    IF k = 0 THEN data
    ELSE ResponseHookApply(hooks[k], BusUrl, ResponseAfter(hooks, data, k - 1)).val

Steps123 == Obj(<<Prop("step1", Bool(TRUE)), Prop("step2", Bool(TRUE)),
                  Prop("step3", Bool(TRUE))>>)

\* C21: executeAbsorbHooks and executeResponseHooks are left folds in
\* registration order: the k-th hook registered is the k-th called, once,
\* with what the hook before it returned (the input data for the first), and
\* the result is what the last returned, the input itself without hooks;
\* hooks adding step1, step2, step3 to {} give {step1, step2, step3}.
C21_LeftFold ==
    \A i \in 1..Len(calls) :
        LET c == calls[i]
        IN  /\ (c.op = "executeAbsorbHooks" /\ NoneThrows(absorbHooks)) =>
                   /\ c.outcome = Returned(AbsorbAfter(absorbHooks, engData,
                                                       Len(absorbHooks)))
                   /\ Len(c.made) = Len(absorbHooks)
                   /\ \A k \in 1..Len(c.made) :
                          /\ c.made[k].hook = absorbHooks[k]
                          /\ c.made[k].data = AbsorbAfter(absorbHooks, engData, k - 1)
                   /\ (absorbHooks = <<"stepAbsorb", "step2Absorb", "step3Absorb">>
                       /\ engData = Obj(<<>>)) => c.outcome = Returned(Steps123)
            /\ (c.op = "executeResponseHooks" /\ NoneThrows(responseHooks)) =>
                   /\ c.outcome = Returned(ResponseAfter(responseHooks, engData,
                                                         Len(responseHooks)))
                   /\ Len(c.made) = Len(responseHooks)
                   /\ \A k \in 1..Len(c.made) :
                          /\ c.made[k].hook = responseHooks[k]
                          /\ c.made[k].data = ResponseAfter(responseHooks, engData, k - 1)

\* the three step hooks were executed on the empty object
C21_Witness ==
    /\ absorbHooks = <<"stepAbsorb", "step2Absorb", "step3Absorb">>
    /\ engData = Obj(<<>>)
    /\ Len(calls) = 1
    /\ calls[1].op = "executeAbsorbHooks"
    /\ calls[1].outcome = Returned(Steps123)


---------------------------------------------------------------------------
(* Plugins and their hooks: claims *)

\* the calls executeRequestHooks(url, options) has to make of the hooks
\* registered: one of each, in registration order
RequestsOf(hooks, url, options) ==
    [k \in 1..Len(hooks) |-> [hook |-> hooks[k], url |-> url, options |-> options]]

\* C23: executeRequestHooks calls every request hook registered once, in
\* registration order, with (url, options), whether or not one of them
\* throws, and the wrapper then calls the original fetch: the call awaits its
\* response.
C23_RequestHooksAllRun ==
    [][ \A url \in PluginsUrls :
            (fetchCall(url) /\ globalFetch = WrapperFetch) =>
                LET c == calls'[Len(calls')]
                IN  /\ c.requested = RequestsOf(requestHooks, url, Obj(<<>>))
                    /\ c.trace = <<"requestHooks", "originalFetch">>
                    /\ c.pc = "awaitFetch"
                    /\ c.result = Pending ]_vars

\* a request hook that throws was called before one that does not, and the
\* original fetch has answered the call
C23_Witness ==
    \E i \in 1..Len(calls) :
        /\ Len(calls[i].requested) = 2
        /\ calls[i].requested[1].hook = "errorRequest"
        /\ calls[i].requested[2].hook = "logRequest"
        /\ calls[i].requested[2].url = calls[i].url
        /\ calls[i].response # NoResponse

\* C24: use(plugin) with a name already installed changes nothing: the
\* installed plugin of that name stays and no hook is added; use(plugin) with a
\* new name installs it and appends what its install registers, once.
C24_UseIdempotent ==
    [][ \A plugin \in PluginsPlugins :
            use(plugin) =>
                IF \E i \in 1..Len(plugins) : plugins[i].name = plugin.name
                THEN /\ plugins' = plugins
                     /\ absorbHooks' = absorbHooks
                     /\ requestHooks' = requestHooks
                     /\ responseHooks' = responseHooks
                ELSE /\ plugins' = Append(plugins, plugin)
                     /\ absorbHooks' = absorbHooks \o Installed(plugin, "absorb")
                     /\ requestHooks' = requestHooks \o Installed(plugin, "request")
                     /\ responseHooks' = responseHooks \o Installed(plugin, "response")
      ]_vars

\* after three calls of use, none of reset, the one plugin named logger that
\* was installed first is there with its hooks registered once, and nothing
\* of the other plugin of that name
C24_Witness ==
    /\ events = 3
    /\ isActive
    /\ calls = <<>>
    /\ plugins = <<PluginLogger>>
    /\ requestHooks = <<"logRequest">>
    /\ responseHooks = <<"logResponse">>
    /\ absorbHooks = <<"logAbsorb">>

IsPrefix(s, t) == Len(s) <= Len(t) /\ SubSeq(t, 1, Len(s)) = s

\* C25: a step that is not reset leaves every hook sequence a prefix of what
\* it becomes; removePlugin changes the installed plugins only, so a later
\* call through the wrapper is still given every hook registered.
C25_HooksAppendOnly ==
    [][ /\ ~reset =>
               /\ IsPrefix(absorbHooks, absorbHooks')
               /\ IsPrefix(requestHooks, requestHooks')
               /\ IsPrefix(responseHooks, responseHooks')
        /\ \A plugin \in PluginsPlugins :
               removePlugin(plugin.name) =>
                   /\ absorbHooks' = absorbHooks
                   /\ requestHooks' = requestHooks
                   /\ responseHooks' = responseHooks
                   /\ \A i \in 1..Len(plugins') : plugins'[i].name # plugin.name
        /\ \A i \in 1..Len(calls) :
               (JsonSettles(i) /\ calls'[i].result.kind = "response"
                    /\ calls'[i].result.object = "new") =>
                   calls'[i].invoked
                       = calls[i].invoked \o responseHooks \o absorbHooks ]_vars

\* every plugin has been removed and a call made since went through the
\* hooks of the removed plugin
C25_Witness ==
    /\ plugins = <<>>
    /\ events = 3
    /\ requestHooks = <<"logRequest">>
    /\ \E i \in 1..Len(calls) :
           /\ calls[i].pc = "done"
           /\ calls[i].invoked = <<"logRequest", "logResponse", "logAbsorb">>


---------------------------------------------------------------------------
(* The stages of a call: claims *)

\* the stages of the wrapper in the order of its code
StageOrder ==
    <<"requestHooks", "originalFetch", "getCushion", "clone", "contentType", "json",
      "responseHooks", "condition", "absorb", "absorbHooks", "createCushionedResponse">>
StageOf(step) == CHOOSE k \in 1..Len(StageOrder) : StageOrder[k] = step

\* every step of the trace is a stage, and a later stage than the step
\* before it: the stages ran in order, none twice
InStageOrder(trace) ==
    /\ \A k \in 1..Len(trace) : \E j \in 1..Len(StageOrder) : StageOrder[j] = trace[k]
    /\ \A k \in 1..(Len(trace) - 1) : StageOf(trace[k]) < StageOf(trace[k + 1])

\* the place of the step in the trace
PlaceOf(c, step) == CHOOSE k \in 1..Len(c.trace) : c.trace[k] = step

Transformed(c) ==
    /\ ParsedCall(c)
    /\ c.result.kind = "response"
    /\ c.result.object = "new"

\* the stages of the claim among those that ran, in the order they ran
ClaimedStages ==
    {"requestHooks", "originalFetch", "json", "responseHooks", "condition", "absorb",
     "absorbHooks"}
StagesRun(c) == SelectSeq(c.trace, LAMBDA step : step \in ClaimedStages)

\* C27: a transformed call ran request hooks, original fetch, JSON parse,
\* response hooks, predicate (if the rule has one), mapping and absorb hooks
\* once each in this order; predicate and mapping were given the output of the
\* response hook chain, and the body returned is the serialized output of the
\* absorb hook chain.
C27_StagesOfTransformedCall ==
    \A i \in 1..Len(calls) :
        LET c == calls[i]
            data == DataOf(c)
            out == executeAbsorbHooks(InvokedOf(c, AbsorbHookNames), c.absorbed[1],
                                      c.applied, c.hookContext)
        IN  Transformed(c) =>
                /\ StagesRun(c)
                     = <<"requestHooks", "originalFetch", "json", "responseHooks">>
                       \o (IF c.cushion.condition = "none" THEN <<>>
                           ELSE <<"condition">>)
                       \o <<"absorb", "absorbHooks">>
                /\ c.cushion.condition = "isV2" =>
                       c.applied = IF IsV2(data) THEN c.cushion.mapping
                                   ELSE c.cushion.fallback
                /\ c.cushion.condition = "none" => c.applied = c.cushion.mapping
                /\ c.absorbed = <<absorb(data, c.applied).val>>
                /\ c.result.response.body
                     = IF JsonStringify(out) = Undef THEN NoBody ELSE JsonStringify(out)

\* a payload that is not v2 as parsed was made v2 by a response hook: the
\* predicate held of it and the mapping, not the fallback, was applied to the
\* hook's output
C27_Witness ==
    \E i \in 1..Len(calls) :
        /\ Transformed(calls[i])
        /\ calls[i].cushion.condition = "isV2"
        /\ calls[i].cushion.fallback # NoMapping
        /\ ~IsV2(calls[i].response.body.value)
        /\ IsV2(DataOf(calls[i]))
        /\ calls[i].applied = calls[i].cushion.mapping
        /\ InvokedOf(calls[i], AbsorbHookNames) # <<>>

\* C28: the context given to the absorb hooks of a transformed call holds the
\* URL of the request and, as originalData, the payload as parsed from the
\* body, before any response hook changed it.
C28_ContextHasParsedPayload ==
    \A i \in 1..Len(calls) :
        Transformed(calls[i]) =>
            calls[i].hookContext = [url |-> calls[i].url,
                                    originalData |-> calls[i].response.body.value]


---------------------------------------------------------------------------
(* The order of the compiled patterns: claims *)

\* the compiled entries matching url whose pattern string is longest
LongestHits(ps, url) ==
    {i \in PatternHits(ps, url) :
        \A j \in PatternHits(ps, url) :
            StringLength(ps[i].pattern) >= StringLength(ps[j].pattern)}

\* C30: after any calls of setCushion, removeCushion and clearAll the
\* compiled list is in non-increasing order of pattern-string length, and a
\* URL with no exact and no query-qualified match gets the rule of a longest
\* matching compiled pattern; with /api/user/:id and /api/* both compiled,
\* /api/user/456 resolves through /api/user/:id.
C30_LongestPatternFirst ==
    /\ \A i, j \in 1..Len(patterns) :
          i < j => StringLength(patterns[i].pattern) >= StringLength(patterns[j].pattern)
    /\ \A url \in AllUrls :
          (~RulesHas(rules, url) /\ QueryHits(rules, url) = {}
                                 /\ PatternHits(patterns, url) # {}) =>
              \E i \in LongestHits(patterns, url) :
                  getCushion(rules, patterns, url) = patterns[i].rule
    /\ (\E i, j \in 1..Len(patterns) :
            patterns[i].pattern = PatParam /\ patterns[j].pattern = PatWild) =>
          /\ Resolve(rules, patterns, Url456) # <<>>
          /\ Resolve(rules, patterns, Url456)[1].pattern = PatParam

\* the longer pattern was registered last, after the shorter one with
\* another rule, and is tried first
C30_Witness ==
    /\ regLast.op = "setCushion"
    /\ regLast.pattern = PatParam
    /\ regLast.rule = RuleA
    /\ Len(regLast.patterns) = 1
    /\ regLast.patterns[1].pattern = PatWild
    /\ regLast.patterns[1].rule = RuleB
    /\ Len(patterns) = 2
    /\ patterns[1].pattern = PatParam
    /\ getCushion(rules, patterns, Url456) = RuleA


---------------------------------------------------------------------------
(* The shorthand registration and the reconstructed body: claims *)

\* C31: setupCushion(p, M) with a bare mapping M registers the rule
\* {mapping: M} without predicate or fallback, whatever the stable keys of M
\* are, and a response for p is absorbed with M.
C31_ShorthandWraps ==
    /\ \A i \in 1..Len(rules) :
          \E arg \in ShorthandArgs :
              rules[i].rule = Rule(arg.mapping, "none", NoMapping)
    /\ \A i \in 1..Len(calls) :
          Transformed(calls[i]) =>
              \E arg \in ShorthandArgs :
                  /\ calls[i].applied = arg.mapping
                  /\ calls[i].absorbed
                       = <<absorb(calls[i].response.body.value, arg.mapping).val>>

\* C32: the data the caller parses from the reconstructed response of a
\* transformed call (a plain object payload) has exactly the stable keys of
\* the applied mapping: a key whose extraction failed is there, with a
\* no-value marker.
C32_StableKeysEndToEnd ==
    \A i \in 1..Len(calls) :
        LET c == calls[i]
            parsed == ResponseJson(c.result.response.body)
        IN  (Transformed(c) /\ c.response.body.value.t = "object") =>
                /\ ~parsed.thrown
                /\ parsed.val.t = "object"
                /\ KeysOf(parsed.val) = StableKeysOf(c.applied)


---------------------------------------------------------------------------
(* Calls in flight: claims *)

\* What a call through the wrapper that has got a response returns, from
\* its own URL and response, the rule found for it and the hooks that ran
\* for it: the original response, the clone, or the reconstructed response.
OwnResult(c) ==
    LET r == c.response
        data == DataOf(c)
        chosen == IF c.cushion.condition = "none" \/ IsV2(data)
                  THEN c.cushion.mapping ELSE c.cushion.fallback
        out == executeAbsorbHooks(InvokedOf(c, AbsorbHookNames),
                                  absorb(data, chosen).val, chosen,
                                  [url |-> c.url, originalData |-> data])
    IN  IF ~r.ok \/ c.cushion = NoRule \/ r.contentType \in NonJsonTypes
        THEN [kind |-> "response", object |-> "original", response |-> r]
        ELSE IF r.body.text # "json" \/ ~Answers(data) \/ chosen = NoMapping
        THEN [kind |-> "response", object |-> "clone", response |-> r]
        ELSE [kind |-> "response", object |-> "new",
              response |-> createCushionedResponse(out, r)]

\* the call came back from the wrapper with a response
Answered(c) ==
    /\ c.via = WrapperFetch
    /\ c.pc = "done"
    /\ c.response # NoResponse

\* C33: whatever other calls are in flight and however their suspension
\* points interleave, the response a call returns is the one computed from
\* its own URL, its own original response and the rule and hooks it met; two
\* calls that agree in these return the same.
C33_CallsIndependent ==
    /\ \A i \in 1..Len(calls) :
          Answered(calls[i]) => calls[i].result = OwnResult(calls[i])
    /\ \A i, j \in 1..Len(calls) :
          (Answered(calls[i]) /\ Answered(calls[j])
              /\ calls[i].url = calls[j].url
              /\ calls[i].response = calls[j].response
              /\ calls[i].cushion = calls[j].cushion
              /\ calls[i].invoked = calls[j].invoked) =>
                 calls[i].result = calls[j].result

\* the call issued first is still suspended in the parsing of its body,
\* and the call issued after it, with another payload, has come back with
\* the body made of its own payload
C33_Witness ==
    /\ Len(calls) >= 2
    /\ calls[1].via = WrapperFetch
    /\ calls[1].pc = "awaitJson"
    /\ calls[1].response.body = JsonText(UserKim)
    /\ Transformed(calls[2])
    /\ calls[2].response.body.value = UserV2
    /\ calls[2].url = calls[1].url
    /\ calls[2].result = OwnResult(calls[2])
    /\ ResponseJson(calls[2].result.response.body).val
         = Obj(<<Prop("name", Str("Park")), Prop("email", Str("park@example.com"))>>)

\* C34: the rule of a call is looked up when its original fetch has
\* resolved, in the registry as it is then: what setupCushion, removeCushion
\* or reset did while the call was suspended decides whether and by which
\* rule the response is transformed, and a call through the wrapper goes on
\* through its pipeline whether or not the interceptor is still active.
C34_RuleResolvedOnArrival ==
    [][ \A i \in 1..Len(calls), response \in InFlightResponses :
            (FetchResolves(i, response) /\ calls[i].via = WrapperFetch) =>
                LET now == getCushion(rules, patterns, calls[i].url)
                IN  /\ calls'[i].cushion = now
                    /\ now = NoRule =>
                           calls'[i].result = [kind |-> "response", object |-> "original",
                                               response |-> response]
                    /\ now # NoRule =>
                           /\ calls'[i].pc = "awaitJson"
                           /\ calls'[i].response = response ]_vars

\* after two calls of the application, a fetch and a reset, the call came
\* back untransformed: the reset that came while it was suspended took the
\* rule its URL had when it was issued
C34_Witness ==
    /\ events = 2
    /\ ~isActive
    /\ rules = <<>>
    /\ Len(calls) = 1
    /\ calls[1].via = WrapperFetch
    /\ calls[1].url = PatLiteral
    /\ calls[1].pc = "done"
    /\ Ran(calls[1], "getCushion")
    /\ calls[1].cushion = NoRule
    /\ calls[1].result.object = "original"


\* C37: a response the wrapper returns is the original response, which the
\* wrapper has not read, the clone taken before the read, or a newly
\* constructed response; once response.json() was called the original
\* response is not the one returned.
C37_ReturnedBodyUnread ==
    \A i \in 1..Len(calls) :
        LET c == calls[i]
        IN  (c.via = WrapperFetch /\ c.pc = "done" /\ c.result.kind = "response") =>
                /\ c.result.object \in {"original", "clone", "new"}
                /\ c.result.object = "original" =>
                       /\ ~Ran(c, "json")
                       /\ c.result.response = c.response
                /\ c.result.object = "clone" =>
                       /\ Ran(c, "clone")
                       /\ Ran(c, "json") => PlaceOf(c, "clone") < PlaceOf(c, "json")
                       /\ c.result.response = c.response
                /\ Ran(c, "json") => c.result.object \in {"clone", "new"}
                /\ c.result.object = "new" => c.result.response.body # UsedBody

\* the body did not parse and the clone taken before the read came back
C37_Witness ==
    \E i \in 1..Len(calls) :
        /\ calls[i].via = WrapperFetch
        /\ calls[i].pc = "done"
        /\ calls[i].response # NoResponse
        /\ calls[i].response.body = MalformedText
        /\ Ran(calls[i], "json")
        /\ calls[i].result = [kind |-> "response", object |-> "clone",
                              response |-> calls[i].response]


---------------------------------------------------------------------------
(* The query string of the URL: claims *)

\* the URL without its query string
PathOf(url) == Split(url, <<"?">>)[1]
UrlsWithQuery == {url \in AllUrls : Includes(url, "?")}
UrlUserV1 == <<"/api", "/", "user", "?", "version", "=", "v1">>
Url123V2 == <<"/api", "/", "user", "/", "123", "?", "version", "=", "v2">>

\* C38: a URL with a query string that is not itself a key of the rules and
\* has no query-qualified hit gets no rule from a literal pattern equal to
\* its path: it gets the rule of a compiled pattern that matches its path, and
\* none when no compiled pattern does.
C38_QueryStrippedForPatternsOnly ==
    \A url \in UrlsWithQuery :
        (~RulesHas(rules, url) /\ QueryHits(rules, url) = {}) =>
            LET onPath == {i \in 1..Len(patterns) :
                              RegexTest(createPatternRegex(patterns[i].pattern),
                                        PathOf(url))}
            IN  /\ onPath = {} => getCushion(rules, patterns, url) = NoRule
                /\ onPath # {} =>
                       \E i \in onPath : getCushion(rules, patterns, url) = patterns[i].rule

\* a rule is registered under the literal path of a URL with a query and
\* the URL gets none, while another URL with a query gets the rule of the
\* parameter pattern its path matches
C38_Witness ==
    /\ RulesHas(rules, PathOf(UrlUserV1))
    /\ ~RulesHas(rules, UrlUserV1)
    /\ QueryHits(rules, UrlUserV1) = {}
    /\ getCushion(rules, patterns, UrlUserV1) = NoRule
    /\ ~RulesHas(rules, PathOf(Url123V2))
    /\ Len(patterns) = 1
    /\ patterns[1].pattern = PatParam
    /\ getCushion(rules, patterns, Url123V2) = patterns[1].rule


---------------------------------------------------------------------------
(* Installing a plugin again: claims *)

\* hooks the install of the plugin registers are registered already
HooksRegistered(plugin) ==
    /\ IsPrefix(Installed(plugin, "request"), requestHooks)
    /\ IsPrefix(Installed(plugin, "response"), responseHooks)
    /\ IsPrefix(Installed(plugin, "absorb"), absorbHooks)
    /\ requestHooks \o responseHooks \o absorbHooks # <<>>

\* C39: removePlugin(name) takes the name out of the installed plugins, and
\* a use() of a plugin of that name after it installs the plugin: install
\* runs again, on top of the hooks the earlier install left, and the branch
\* of the duplicate warning is not taken.
C39_RemoveAllowsReinstall ==
    [][ /\ \A plugin \in PluginsPlugins :
               removePlugin(plugin.name) =>
                   \A i \in 1..Len(plugins') : plugins'[i].name # plugin.name
        /\ \A plugin \in PluginsPlugins :
               (use(plugin) /\ HooksRegistered(plugin)
                    /\ \A i \in 1..Len(plugins) : plugins[i].name # plugin.name) =>
                   /\ plugins' = Append(plugins, plugin)
                   /\ requestHooks' = requestHooks \o Installed(plugin, "request")
                   /\ responseHooks' = responseHooks \o Installed(plugin, "response")
                   /\ absorbHooks' = absorbHooks \o Installed(plugin, "absorb") ]_vars

\* use, removePlugin and use of the logger: it is installed, and its install
\* has run twice
C39_Witness ==
    /\ events = 3
    /\ isActive
    /\ plugins = <<PluginLogger>>
    /\ requestHooks = <<"logRequest", "logRequest">>
    /\ responseHooks = <<"logResponse", "logResponse">>
    /\ absorbHooks = <<"logAbsorb", "logAbsorb">>


---------------------------------------------------------------------------
(* Two interceptors and other code on the one ambient fetch: claims *)

\* C35: with two interceptors on the one ambient fetch, whenever their
\* activate() and deactivate() calls, in any order, have left both inactive,
\* globalThis.fetch is the fetch of the platform that was there before either
\* was activated: no wrapper of an inactive interceptor is left installed.
C35_BothInactiveRestoresNative ==
    (~isActive /\ ~second.isActive) => globalFetch = NativeFetch

\* C36: whatever activate() and deactivate() do among other code that keeps
\* the ambient fetch and puts it back later, the original fetch the
\* interceptor's wrapper hands the request to is never a wrapper of the same
\* interceptor, so a call of globalThis.fetch comes to a fetch that is no
\* wrapper after finitely many delegations.
C36_NeverOwnWrapper ==
    /\ DelegateOf(WrapperFetch) # WrapperFetch
    /\ ReachesNonWrapper(globalFetch, Cardinality(Wrappers))

====
